---- MODULE Spec2Model ----
(***************************************************************************)
(* The incremental indexing pipeline of repo-knowledge                     *)
(* (indexer/pipeline.ts) over the metadata store (storage/sqlite.ts) and   *)
(* the vector store (storage/lance.ts).                                    *)
(***************************************************************************)
EXTENDS Integers, Sequences, FiniteSets, TLC

\* Number of pipeline runs explored in one behaviour.
MaxRuns == 2

(***************************************************************************)
(* The project tree.  A file is identified by its relative path; its       *)
(* bytes are one of a few source texts.  For every source text the table   *)
(* gives what stat, the parser, the symbol extractor and the chunker       *)
(* return for it.                                                          *)
(*   A1  a.ts  import foo, { foo as bar } from "./b.js";                   *)
(*             export function caller() { foo(); }                         *)
(*             export function run() { caller(); }                         *)
(*   AX  a.ts  one byte longer than A1; the file cannot be read (EACCES)   *)
(*   B1  b.ts  export function foo() {}                                    *)
(*   B2  b.ts  export function foo() {}                                    *)
(*             export class Bar {                                          *)
(*               run() {} }          (longer than B1, chunked in two)      *)
(*   B3  b.ts  export function fop() {}      (same length as B1)           *)
(*   BN  b.ts  export function foo() {};     no grammar loads for the      *)
(*             file's language: parse returns null                         *)
(*   BT  b.ts  export function foo() {};;    the parser raises an error    *)
(*   BP  b.ts  export class Bar {                                          *)
(*               Bar() {}                                                  *)
(*               run() {} }          (a method named like its class)       *)
(***************************************************************************)
Paths == {"a.ts", "b.ts"}

\* discovered.sort((a, b) => a.relativePath.localeCompare(b.relativePath))
PathOrder == <<"a.ts", "b.ts">>

NoFile == "none"

SourcesAt(p) == IF p = "a.ts" THEN {"A1", "AX"} ELSE {"B1", "B2", "B3"}

Sym(n, p, s, e) == [name |-> n, parentName |-> p, startLine |-> s, endLine |-> e]

Chk(s, e, names, calls, words) ==
  [startLine |-> s, endLine |-> e, containedSymbolNames |-> names,
   calls |-> calls, words |-> words]

SourceTable ==
  [k \in {"A1", "AX", "B1", "B2", "B3", "BN", "BT", "BP"} |->
    CASE k = "A1" ->
           [sizeBytes |-> 79, readable |-> TRUE, parse |-> "tree",
            symbols |-> <<Sym("caller", "", 2, 2), Sym("run", "", 3, 3)>>,
            imports |-> <<[source |-> "./b.js", names |-> <<"foo", "foo">>]>>,
            chunks |-> <<Chk(1, 3, <<"caller", "run">>, {"caller", "foo", "run"},
                             {"caller", "foo", "run"})>>]
      [] k = "AX" ->
           [sizeBytes |-> 80, readable |-> FALSE, parse |-> "tree",
            symbols |-> <<Sym("caller", "", 2, 2), Sym("run", "", 3, 3)>>,
            imports |-> <<[source |-> "./b.js", names |-> <<"foo", "foo">>]>>,
            chunks |-> <<Chk(1, 3, <<"caller", "run">>, {"caller", "foo", "run"},
                             {"caller", "foo", "run"})>>]
      [] k = "B1" ->
           [sizeBytes |-> 24, readable |-> TRUE, parse |-> "tree",
            symbols |-> <<Sym("foo", "", 1, 1)>>,
            imports |-> <<>>,
            chunks |-> <<Chk(1, 1, <<"foo">>, {"foo"}, {"foo"})>>]
      [] k = "B2" ->
           [sizeBytes |-> 57, readable |-> TRUE, parse |-> "tree",
            symbols |-> <<Sym("foo", "", 1, 1), Sym("Bar", "", 2, 4),
                          Sym("run", "Bar", 3, 3)>>,
            imports |-> <<>>,
            chunks |-> <<Chk(1, 1, <<"foo">>, {"foo"}, {"foo"}),
                         Chk(2, 4, <<"Bar", "run">>, {"run"}, {"Bar", "run"})>>]
      [] k = "B3" ->
           [sizeBytes |-> 24, readable |-> TRUE, parse |-> "tree",
            symbols |-> <<Sym("fop", "", 1, 1)>>,
            imports |-> <<>>,
            chunks |-> <<Chk(1, 1, <<"fop">>, {"fop"}, {"fop"})>>]
      [] k = "BN" ->
           [sizeBytes |-> 25, readable |-> TRUE, parse |-> "null",
            symbols |-> <<>>,
            imports |-> <<>>,
            chunks |-> <<Chk(1, 1, <<>>, {"foo"}, {"foo"})>>]
      [] k = "BT" ->
           [sizeBytes |-> 26, readable |-> TRUE, parse |-> "throws",
            symbols |-> <<>>,
            imports |-> <<>>,
            chunks |-> <<Chk(1, 1, <<>>, {"foo"}, {"foo"})>>]
      [] k = "BP" ->
           [sizeBytes |-> 45, readable |-> TRUE, parse |-> "tree",
            symbols |-> <<Sym("Bar", "", 1, 3), Sym("Bar", "Bar", 2, 2),
                          Sym("run", "Bar", 3, 3)>>,
            imports |-> <<>>,
            chunks |-> <<Chk(1, 3, <<"Bar", "Bar", "run">>, {"Bar", "run"},
                             {"Bar", "run"})>>]]

\* fs.statSync(absolutePath).size
statSize(src) == SourceTable[src].sizeBytes

\* crypto.createHash("sha256").update(content).digest("hex"): a function of
\* the bytes, taken to be collision free on the source texts.
hashContent(src) == <<"sha256", src>>

\* tsManager.parse(source, language): a tree, null when no grammar loads,
\* or an error raised by the parser.
parse(src) == SourceTable[src].parse

\* extractSymbols(tree, source, language): the symbols and imports of a
\* source text; without a tree the pipeline keeps its empty lists.
extractSymbols(src) ==
  [symbols |-> SourceTable[src].symbols, imports |-> SourceTable[src].imports]

\* chunkFile(source, relativePath, symbols, chunkMaxTokens)
chunkFile(src) == SourceTable[src].chunks

Range(s) == {s[i] : i \in 1..Len(s)}

(***************************************************************************)
(* SqliteStore.  The database is a record of tables; every method is an    *)
(* operator from database to database.  Row ids are AUTOINCREMENT: the     *)
(* sequence counters are never reset, not even by clearAllData.            *)
(***************************************************************************)
EmptyDb ==
  [files |-> {}, symbols |-> {}, chunks |-> {}, graph_edges |-> {},
   file_dependencies |-> {}, symbols_fts |-> {}, chunks_fts |-> {},
   index_state |-> {}, seqFiles |-> 0, seqSymbols |-> 0, seqChunks |-> 0,
   seqEdges |-> 0]

getFileByPath(d, path) == {f \in d.files : f.path = path}

FileIdOf(d, path) ==
  IF getFileByPath(d, path) = {} THEN 0
  ELSE (CHOOSE f \in d.files : f.path = path).id

upsertFile(d, path, hash, size) ==
  IF getFileByPath(d, path) # {}
  THEN [d EXCEPT !.files =
          {IF f.path = path
           THEN [f EXCEPT !.content_hash = hash, !.size_bytes = size]
           ELSE f : f \in d.files}]
  ELSE [d EXCEPT !.files = @ \cup {[id |-> d.seqFiles + 1, path |-> path,
                                    content_hash |-> hash, size_bytes |-> size]},
                 !.seqFiles = @ + 1]

\* The rows of a table in row order.
RECURSIVE RowOrder(_)
RowOrder(rows) ==
  IF rows = {} THEN <<>>
  ELSE LET first == CHOOSE r \in rows : \A q \in rows : r.id <= q.id
       IN <<first>> \o RowOrder(rows \ {first})

\* new Map(rows.map((r) => [r.path, r.content_hash])): pairs in row order.
getFileHashes(d) ==
  LET rows == RowOrder(d.files)
  IN [i \in 1..Len(rows) |-> <<rows[i].path, rows[i].content_hash>>]

getFileSizes(d) ==
  LET rows == RowOrder(d.files)
  IN [i \in 1..Len(rows) |-> <<rows[i].path, rows[i].size_bytes>>]

\* ON DELETE CASCADE from a set of deleted symbol ids: child symbols
\* (parent_symbol_id) and graph edges (source_symbol_id, target_symbol_id).
RECURSIVE CascadeSymbols(_, _)
CascadeSymbols(symbols, gone) ==
  LET more == {s.id : s \in {t \in symbols : t.parent_symbol_id \in gone}} \ gone
  IN IF more = {} THEN gone ELSE CascadeSymbols(symbols, gone \cup more)

DeleteSymbolRows(d, ids) ==
  LET gone == CascadeSymbols(d.symbols, ids)
  IN [d EXCEPT !.symbols = {s \in @ : s.id \notin gone},
               !.graph_edges = {e \in @ : e.source_symbol_id \notin gone
                                        /\ e.target_symbol_id \notin gone}]

rebuildSymbolsFts(d) == [d EXCEPT !.symbols_fts = {s.id : s \in d.symbols}]

rebuildChunksFts(d) == [d EXCEPT !.chunks_fts = {c.id : c \in d.chunks}]

\* deleteFilesByPaths with foreign keys off: only the file rows go.
deleteFilesByPaths_noCascade(d, paths) ==
  IF paths = {} THEN d
  ELSE rebuildChunksFts(rebuildSymbolsFts(
         [d EXCEPT !.files = {f \in @ : f.path \notin paths}]))

\* deleteFilesByPaths without the full-text rebuilds that follow the delete.
deleteFilesByPaths_noFtsRebuild(d, paths) ==
  IF paths = {} THEN d
  ELSE
    LET fids == {f.id : f \in {g \in d.files : g.path \in paths}}
        d1 == DeleteSymbolRows(d, {s.id : s \in {t \in d.symbols : t.file_id \in fids}})
    IN [d1 EXCEPT !.files = {f \in @ : f.id \notin fids},
                  !.chunks = {c \in @ : c.file_id \notin fids},
                  !.file_dependencies =
                     {x \in @ : x.source_file_id \notin fids
                             /\ x.target_file_id \notin fids}]

\* DELETE FROM files WHERE path = ? for every path, with the schema's
\* ON DELETE CASCADE on symbols, chunks and file_dependencies, then both
\* full-text rebuilds.
deleteFilesByPaths(d, paths) ==
  IF paths = {} THEN d
  ELSE
    LET fids == {f.id : f \in {g \in d.files : g.path \in paths}}
        d1 == DeleteSymbolRows(d, {s.id : s \in {t \in d.symbols : t.file_id \in fids}})
        d2 == [d1 EXCEPT !.files = {f \in @ : f.id \notin fids},
                         !.chunks = {c \in @ : c.file_id \notin fids},
                         !.file_dependencies =
                            {x \in @ : x.source_file_id \notin fids
                                    /\ x.target_file_id \notin fids}]
    IN rebuildChunksFts(rebuildSymbolsFts(d2))

deleteSymbolsByFile(d, fileId, rebuildFts) ==
  LET d1 == DeleteSymbolRows(d, {s.id : s \in {t \in d.symbols : t.file_id = fileId}})
  IN IF rebuildFts THEN rebuildSymbolsFts(d1) ELSE d1

deleteChunksByFile(d, fileId, rebuildFts) ==
  LET d1 == [d EXCEPT !.chunks = {c \in @ : c.file_id # fileId}]
  IN IF rebuildFts THEN rebuildChunksFts(d1) ELSE d1

deleteEdgesByFile(d, fileId) ==
  [d EXCEPT !.graph_edges =
     {e \in @ : e.source_file_id # fileId /\ e.target_file_id # fileId}]

deleteFileDependenciesByFile(d, fileId) ==
  [d EXCEPT !.file_dependencies =
     {x \in @ : x.source_file_id # fileId /\ x.target_file_id # fileId}]

\* INSERT INTO symbols ...; INSERT INTO symbols_fts (rowid, ...)
insertSymbol(d, fileId, sym) ==
  [d EXCEPT !.symbols = @ \cup {[id |-> d.seqSymbols + 1, file_id |-> fileId,
                                 name |-> sym.name, parent_symbol_id |-> 0,
                                 start_line |-> sym.startLine,
                                 end_line |-> sym.endLine,
                                 importance_score |-> 0]},
            !.symbols_fts = @ \cup {d.seqSymbols + 1},
            !.seqSymbols = @ + 1]

updateSymbolParent(d, symbolId, parentId) ==
  [d EXCEPT !.symbols = {IF s.id = symbolId
                         THEN [s EXCEPT !.parent_symbol_id = parentId]
                         ELSE s : s \in @}]

\* INSERT INTO chunks ...; INSERT INTO chunks_fts (rowid, ...)
insertChunk(d, fileId, src, idx, chunk) ==
  [d EXCEPT !.chunks = @ \cup {[id |-> d.seqChunks + 1, file_id |-> fileId,
                                chunk_index |-> idx, content |-> <<src, idx>>,
                                start_line |-> chunk.startLine,
                                end_line |-> chunk.endLine]},
            !.chunks_fts = @ \cup {d.seqChunks + 1},
            !.seqChunks = @ + 1]

\* INSERT OR IGNORE under UNIQUE(source_symbol_id, target_symbol_id, edge_type)
insertEdge(d, e) ==
  IF \E x \in d.graph_edges : /\ x.source_symbol_id = e.source_symbol_id
                              /\ x.target_symbol_id = e.target_symbol_id
                              /\ x.edge_type = e.edge_type
  THEN d
  ELSE [d EXCEPT !.graph_edges =
                    @ \cup {[id |-> d.seqEdges + 1,
                             source_symbol_id |-> e.source_symbol_id,
                             target_symbol_id |-> e.target_symbol_id,
                             edge_type |-> e.edge_type,
                             source_file_id |-> e.source_file_id,
                             target_file_id |-> e.target_file_id]},
                 !.seqEdges = @ + 1]

\* INSERT OR IGNORE under UNIQUE(source_file_id, target_file_id, dependency_type)
insertFileDependency(d, src, tgt) ==
  [d EXCEPT !.file_dependencies =
     @ \cup {[source_file_id |-> src, target_file_id |-> tgt]}]

setState(d, key, value) ==
  [d EXCEPT !.index_state =
     {r \in @ : r.key # key} \cup {[key |-> key, value |-> value]}]

getStats(d) ==
  [totalFiles |-> Cardinality(d.files), totalChunks |-> Cardinality(d.chunks)]

clearAllData(d) ==
  [d EXCEPT !.chunks_fts = {}, !.symbols_fts = {}, !.graph_edges = {},
            !.file_dependencies = {}, !.chunks = {}, !.symbols = {},
            !.files = {}, !.index_state = {}]

(***************************************************************************)
(* LanceStore.  exists/rows are the "chunks" table on disk, table is the   *)
(* in-memory handle this.table of the LanceStore instance.                 *)
(***************************************************************************)
EmptyLance == [exists |-> FALSE, rows |-> {}, table |-> FALSE]

createTable(l, records) == [exists |-> TRUE, rows |-> records, table |-> TRUE]

addRecords(l, records) ==
  IF ~l.table THEN createTable(l, records)
  ELSE [l EXCEPT !.rows = @ \cup records]

\* Deletes the rows of one file; opens the table first when there is one,
\* as vectorSearch does.
deleteByFilePath(l, path) ==
  IF ~l.table /\ ~l.exists THEN l
  ELSE [l EXCEPT !.table = TRUE, !.rows = {r \in @ : r.file_path # path}]

(***************************************************************************)
(* File discovery and the content-addressed diff.                          *)
(***************************************************************************)
\* discoverFiles: the files present, with their stat size, sorted by path.
discoverFiles(t) ==
  LET present == SelectSeq(PathOrder, LAMBDA p : t[p] # NoFile)
  IN [i \in 1..Len(present) |->
        [relativePath |-> present[i], sizeBytes |-> statSize(t[present[i]])]]

\* Map.get: the value stored under key, as a set of at most one element.
MapGet(map, key) == {map[i][2] : i \in {k \in 1..Len(map) : map[k][1] = key}}

\* computeDiff without the continue after the size check.
DiffStep_noContinue(acc, file, existingHashes, existingSizes, t) ==
  LET path == file.relativePath
      existingHash == MapGet(existingHashes, path)
      existingSize == MapGet(existingSizes, path)
      src == t[path]
      acc1 == IF existingSize # {} /\ existingSize # {file.sizeBytes}
              THEN [acc EXCEPT !.modified = Append(@, file)] ELSE acc
  IN IF acc.threw THEN acc
     ELSE IF existingHash = {}
       THEN [acc EXCEPT !.added = Append(@, file)]
     ELSE IF ~SourceTable[src].readable
       THEN [acc1 EXCEPT !.threw = TRUE]
     ELSE IF {hashContent(src)} # existingHash
       THEN [acc1 EXCEPT !.modified = Append(@, file),
                         !.contentCache = @ \cup {<<path, src>>}]
     ELSE [acc1 EXCEPT !.unchanged = Append(@, path),
                       !.contentCache = @ \cup {<<path, src>>}]

\* The loop body of computeDiff for one discovered file; acc holds added,
\* modified, unchanged, the content cache and whether readFileSync threw.
DiffStep(acc, file, existingHashes, existingSizes, t) ==
  LET path == file.relativePath
      existingHash == MapGet(existingHashes, path)
      existingSize == MapGet(existingSizes, path)
      src == t[path]
  IN IF acc.threw THEN acc
     ELSE IF existingHash = {}
       THEN [acc EXCEPT !.added = Append(@, file)]
     ELSE IF existingSize # {} /\ existingSize # {file.sizeBytes}
       THEN [acc EXCEPT !.modified = Append(@, file)]
     ELSE IF ~SourceTable[src].readable
       THEN [acc EXCEPT !.threw = TRUE]
     ELSE IF {hashContent(src)} # existingHash
       THEN [acc EXCEPT !.modified = Append(@, file),
                        !.contentCache = @ \cup {<<path, src>>}]
     ELSE [acc EXCEPT !.unchanged = Append(@, path),
                      !.contentCache = @ \cup {<<path, src>>}]

RECURSIVE DiffLoop(_, _, _, _, _, _)
DiffLoop(acc, discovered, i, existingHashes, existingSizes, t) ==
  IF i > Len(discovered) THEN acc
  ELSE DiffLoop(DiffStep(acc, discovered[i], existingHashes, existingSizes, t),
                discovered, i + 1, existingHashes, existingSizes, t)

computeDiff(discovered, existingHashes, existingSizes, t) ==
  LET acc == DiffLoop([added |-> <<>>, modified |-> <<>>, unchanged |-> <<>>,
                       contentCache |-> {}, threw |-> FALSE],
                      discovered, 1, existingHashes, existingSizes, t)
      seenPaths == {discovered[i].relativePath : i \in 1..Len(discovered)}
      existingPaths == [i \in 1..Len(existingHashes) |-> existingHashes[i][1]]
      removed == SelectSeq(existingPaths, LAMBDA p : p \notin seenPaths)
  IN [added |-> acc.added, modified |-> acc.modified, removed |-> removed,
      unchanged |-> acc.unchanged, contentCache |-> acc.contentCache,
      threw |-> acc.threw]

(***************************************************************************)
(* Phase 3-5 of runIndexingPipeline: parse, chunk, persist.                *)
(***************************************************************************)
\* Phase 3 storing the hash of the path instead of the hash of the content.
ParseOne_hashesPath(file, contentCache, t) ==
  LET path == file.relativePath
      cached == {x[2] : x \in {y \in contentCache : y[1] = path}}
      src == IF cached # {} THEN CHOOSE c \in cached : TRUE ELSE t[path]
  IN IF cached = {} /\ ~SourceTable[src].readable THEN <<>>
     ELSE <<[relativePath |-> path, sizeBytes |-> file.sizeBytes, source |-> src,
             contentHash |-> hashContent(path),
             symbols |-> extractSymbols(src).symbols,
             imports |-> extractSymbols(src).imports,
             chunks |-> chunkFile(src)]>>

\* Phase 3/4 for one file: nothing when the try block throws (the file
\* cannot be read and is not in the content cache, or the parser raises).
ParseOne(file, contentCache, t) ==
  LET path == file.relativePath
      cached == {x[2] : x \in {y \in contentCache : y[1] = path}}
      src == IF cached # {} THEN CHOOSE c \in cached : TRUE ELSE t[path]
  IN IF cached = {} /\ ~SourceTable[src].readable THEN <<>>
     ELSE IF parse(src) = "throws" THEN <<>>
     ELSE <<[relativePath |-> path, sizeBytes |-> file.sizeBytes, source |-> src,
             contentHash |-> hashContent(src),
             symbols |-> IF parse(src) = "tree"
                         THEN extractSymbols(src).symbols ELSE <<>>,
             imports |-> IF parse(src) = "tree"
                         THEN extractSymbols(src).imports ELSE <<>>,
             chunks |-> chunkFile(src)]>>

RECURSIVE ParseFiles(_, _, _, _)
ParseFiles(filesToProcess, i, contentCache, t) ==
  IF i > Len(filesToProcess) THEN <<>>
  ELSE ParseOne(filesToProcess[i], contentCache, t)
         \o ParseFiles(filesToProcess, i + 1, contentCache, t)

RECURSIVE insertSymbols(_, _, _, _)
insertSymbols(d, fileId, symbols, i) ==
  IF i > Len(symbols) THEN d
  ELSE insertSymbols(insertSymbol(d, fileId, symbols[i]), fileId, symbols, i + 1)

\* A parent map that also holds the nested symbols.
ParentIdOf_anySymbol(symbols, firstId, parentName) ==
  LET named == {i \in 1..Len(symbols) : symbols[i].name = parentName}
  IN IF named = {} THEN 0
     ELSE firstId + (CHOOSE i \in named : \A k \in named : k <= i) - 1

\* parentNameToId.get(parentName): the id of the last top-level symbol of the
\* file with that name, 0 when there is none.
ParentIdOf(symbols, firstId, parentName) ==
  LET tops == {i \in 1..Len(symbols) :
                 symbols[i].parentName = "" /\ symbols[i].name = parentName}
  IN IF tops = {} THEN 0
     ELSE firstId + (CHOOSE i \in tops : \A k \in tops : k <= i) - 1

RECURSIVE ResolveParents(_, _, _, _)
ResolveParents(d, symbols, firstId, i) ==
  IF i > Len(symbols) THEN d
  ELSE LET parentId == ParentIdOf(symbols, firstId, symbols[i].parentName)
           d1 == IF symbols[i].parentName # "" /\ parentId # 0
                 THEN updateSymbolParent(d, firstId + i - 1, parentId)
                 ELSE d
       IN ResolveParents(d1, symbols, firstId, i + 1)

RECURSIVE InsertChunks(_, _, _, _)
InsertChunks(acc, fileId, parsed, i) ==
  IF i > Len(parsed.chunks) THEN acc
  ELSE LET d1 == insertChunk(acc.db, fileId, parsed.source, i - 1, parsed.chunks[i])
           rec == [chunkId |-> d1.seqChunks, fileId |-> fileId,
                   filePath |-> parsed.relativePath,
                   content |-> <<parsed.source, i - 1>>]
       IN InsertChunks([db |-> d1, all |-> Append(acc.all, rec)], fileId, parsed, i + 1)

\* The body of the Phase 5 loop for one parsed file.
PersistOne(acc, parsed) ==
  LET d1 == upsertFile(acc.db, parsed.relativePath, parsed.contentHash, parsed.sizeBytes)
      fileId == FileIdOf(d1, parsed.relativePath)
      d2 == insertSymbols(d1, fileId, parsed.symbols, 1)
      d3 == ResolveParents(d2, parsed.symbols, d1.seqSymbols + 1, 1)
  IN IF fileId = 0 THEN acc
     ELSE InsertChunks([db |-> d3, all |-> acc.all], fileId, parsed, 1)

RECURSIVE PersistFiles(_, _, _)
PersistFiles(acc, parsedFiles, i) ==
  IF i > Len(parsedFiles) THEN acc
  ELSE PersistFiles(PersistOne(acc, parsedFiles[i]), parsedFiles, i + 1)

\* provider.embed: one vector per text.
batchEmbed(texts) == [i \in 1..Len(texts) |-> <<"vector", texts[i]>>]

LanceRecords(all, vectors) ==
  {[chunk_id |-> all[i].chunkId, file_id |-> all[i].fileId,
    file_path |-> all[i].filePath, vector |-> vectors[i]] : i \in 1..Len(all)}

(***************************************************************************)
(* buildGraph (indexer/graph-builder.ts).                                  *)
(***************************************************************************)
Extensions ==
  <<"", ".ts", ".tsx", ".js", ".jsx", "/index.ts", "/index.tsx", "/index.js",
    "/index.jsx", ".py", ".rs", ".go">>

TsExtensions == <<".ts", ".tsx", "/index.ts", "/index.tsx">>

\* path.join(path.dirname(currentFile), importSource) without a leading "./",
\* and the same with a trailing .js or .jsx removed ("" when there is none),
\* for the import sources of the source table; every file is at the root.
JoinedImport(importSource) ==
  IF importSource = "./b.js" THEN [resolved |-> "b.js", stripped |-> "b"]
  ELSE [resolved |-> importSource, stripped |-> ""]

IsRelative(importSource) == importSource \in {"./b.js"}

FirstHit(base, exts, knownFiles) ==
  LET hits == {i \in 1..Len(exts) : (base \o exts[i]) \in knownFiles}
  IN IF hits = {} THEN ""
     ELSE base \o exts[CHOOSE i \in hits : \A k \in hits : i <= k]

\* The resolved path, "" for null.
resolveImportPath(currentFile, importSource, knownFiles) ==
  IF ~IsRelative(importSource) THEN ""
  ELSE LET j == JoinedImport(importSource)
       IN IF FirstHit(j.resolved, Extensions, knownFiles) # ""
          THEN FirstHit(j.resolved, Extensions, knownFiles)
          ELSE IF j.stripped # ""
          THEN FirstHit(j.stripped, TsExtensions, knownFiles)
          ELSE ""

ChunkText(c) == SourceTable[c.content[1]].chunks[c.content[2] + 1]

\* The names a \b<name>\s*\( pattern matches in a chunk without its header.
CallsIn(c) == ChunkText(c).calls

\* The names a \b<name>\b pattern matches in a chunk's content; the header
\* line lists the contained symbol names.
WordsIn(c) == ChunkText(c).words \cup Range(ChunkText(c).containedSymbolNames)

Overlaps(sym, c) == sym.start_line <= c.end_line /\ sym.end_line >= c.start_line

Edge(src, tgt, type, srcFile) ==
  [source_symbol_id |-> src.id, target_symbol_id |-> tgt.id, edge_type |-> type,
   source_file_id |-> srcFile, target_file_id |-> tgt.file_id]

\* getSymbolsByFile(fileId)[0]: the first symbol in start_line order.
FirstSymbol(sourceSymbols) ==
  IF sourceSymbols = {} THEN {}
  ELSE {CHOOSE s \in sourceSymbols :
          \A q \in sourceSymbols :
             s.start_line < q.start_line
               \/ (s.start_line = q.start_line /\ s.id <= q.id)}

\* The file dependencies buildGraph inserts for one parsed file.
FileDepsOf(d, parsed) ==
  LET knownFiles == {f.path : f \in d.files}
      fileId == FileIdOf(d, parsed.relativePath)
      resolved == {resolveImportPath(parsed.relativePath, imp.source, knownFiles) :
                     imp \in Range(parsed.imports)} \ {""}
  IN {[source_file_id |-> fileId, target_file_id |-> FileIdOf(d, r)] : r \in resolved}

\* The elements of a finite set as a list.
RECURSIVE SeqOf(_)
SeqOf(S) ==
  IF S = {} THEN <<>>
  ELSE LET x == CHOOSE y \in S : TRUE IN <<x>> \o SeqOf(S \ {x})

\* The concatenation of lists[1..n].
RECURSIVE Flatten(_, _)
Flatten(lists, n) ==
  IF n = 0 THEN <<>> ELSE Flatten(lists, n - 1) \o lists[n]

\* The edges pushed for the imports of one parsed file: one batch for every
\* name of every import declaration, a name listed twice pushes twice.
ImportEdgesOf(d, parsed) ==
  LET fileId == FileIdOf(d, parsed.relativePath)
      sourceSymbols == {s \in d.symbols : s.file_id = fileId}
      chunks == {c \in d.chunks : c.file_id = fileId}
      body(s) == UNION {WordsIn(c) : c \in {x \in chunks : Overlaps(s, x)}}
      using(name) == {s \in sourceSymbols : s.name # name /\ name \in body(s)}
      sources(name) ==
        IF using(name) # {} THEN using(name) ELSE FirstSymbol(sourceSymbols)
      forName(name) ==
        SeqOf({Edge(src, tgt, "imports", fileId) :
                 src \in sources(name), tgt \in {t \in d.symbols : t.name = name}})
      forImport(imp) ==
        Flatten([j \in 1..Len(imp.names) |-> forName(imp.names[j])], Len(imp.names))
  IN Flatten([i \in 1..Len(parsed.imports) |-> forImport(parsed.imports[i])],
             Len(parsed.imports))

\* Call edges without the skip of targets in the calling file.
CallEdgesOf_keepsIntraFile(d, parsed) ==
  LET fileId == FileIdOf(d, parsed.relativePath)
      fileSymbols == {s \in d.symbols : s.file_id = fileId}
      chunks == {c \in d.chunks : c.file_id = fileId}
      targets(name) == {t \in d.symbols : t.name = name}
      skipped(name) ==
        \/ /\ name \in {s.name : s \in fileSymbols}
           /\ \A t \in targets(name) : t.file_id = fileId
        \/ \A c \in chunks : name \notin CallsIn(c)
      overlapping(name) ==
        {s \in fileSymbols :
           \E c \in chunks : name \in CallsIn(c) /\ Overlaps(s, c)}
      sourceSyms(name) ==
        IF overlapping(name) # {} THEN overlapping(name) ELSE FirstSymbol(fileSymbols)
  IN SeqOf(UNION {IF skipped(name) THEN {}
                  ELSE UNION {{Edge(src, tgt, "calls", fileId) :
                                 tgt \in {t \in targets(name) : t.id # src.id}} :
                              src \in sourceSyms(name)} :
                  name \in {s.name : s \in d.symbols}})

\* The call edges pushed for one parsed file.
CallEdgesOf(d, parsed) ==
  LET fileId == FileIdOf(d, parsed.relativePath)
      fileSymbols == {s \in d.symbols : s.file_id = fileId}
      chunks == {c \in d.chunks : c.file_id = fileId}
      targets(name) == {t \in d.symbols : t.name = name}
      skipped(name) ==
        \/ /\ name \in {s.name : s \in fileSymbols}
           /\ \A t \in targets(name) : t.file_id = fileId
        \/ \A c \in chunks : name \notin CallsIn(c)
      overlapping(name) ==
        {s \in fileSymbols :
           \E c \in chunks : name \in CallsIn(c) /\ Overlaps(s, c)}
      sourceSyms(name) ==
        IF overlapping(name) # {} THEN overlapping(name) ELSE FirstSymbol(fileSymbols)
  IN SeqOf(UNION {IF skipped(name) THEN {}
                  ELSE UNION {{Edge(src, tgt, "calls", fileId) :
                                 tgt \in {t \in targets(name) :
                                            t.id # src.id /\ t.file_id # fileId}} :
                              src \in sourceSyms(name)} :
                  name \in {s.name : s \in d.symbols}})

\* for (const e of es) this.insertEdge(e)
RECURSIVE insertEdges(_, _)
insertEdges(d, edges) ==
  IF edges = <<>> THEN d
  ELSE insertEdges(insertEdge(d, Head(edges)), Tail(edges))

RECURSIVE insertFileDependencies(_, _)
insertFileDependencies(d, deps) ==
  IF deps = {} THEN d
  ELSE LET x == CHOOSE y \in deps : TRUE
       IN insertFileDependencies(
            insertFileDependency(d, x.source_file_id, x.target_file_id), deps \ {x})

\* buildGraph over the files parsed in this run that have a file row.
buildGraph(d, parsedFiles) ==
  LET graphData == {parsedFiles[i] : i \in {k \in 1..Len(parsedFiles) :
                        FileIdOf(d, parsedFiles[k].relativePath) > 0}}
      deps == UNION {FileDepsOf(d, parsed) : parsed \in graphData}
      files == SeqOf(graphData)
      edges == Flatten([i \in 1..Len(files) |->
                          ImportEdgesOf(d, files[i]) \o CallEdgesOf(d, files[i])],
                       Len(files))
  IN IF Len(edges) > 0 THEN insertEdges(insertFileDependencies(d, deps), edges)
     ELSE insertFileDependencies(d, deps)

(***************************************************************************)
(* rankSymbols.  Scores are fixed-point numbers: ScoreUnit stands for 1.0   *)
(* and every division truncates, so that x / x is exactly ScoreUnit and     *)
(* x / max is at most ScoreUnit, as in the floating-point original.         *)
(***************************************************************************)
ScoreUnit == 10000

\* 0.85, in hundredths.
dampingFactor == 85

iterations == 20

\* scores.get(id) for a map kept as a set of <<id, score>> pairs.
ScoreOf(scores, id) == (CHOOSE p \in scores : p[1] = id)[2]

\* The sum of the second components of a set of pairs.
RECURSIVE SumOf(_)
SumOf(pairs) ==
  IF pairs = {} THEN 0
  ELSE LET p == CHOOSE q \in pairs : TRUE IN p[2] + SumOf(pairs \ {p})

\* One iteration of PageRank with dangling-mass redistribution.
PageRankStep(scores, edges) ==
  LET symbolIds == {p[1] : p \in scores}
      N == Cardinality(symbolIds)
      outDegree(id) == Cardinality({e \in edges : e.source_symbol_id = id})
      danglingMass == SumOf({p \in scores : outDegree(p[1]) = 0})
      inScore(id) ==
        SumOf({<<e.id, ScoreOf(scores, e.source_symbol_id)
                         \div outDegree(e.source_symbol_id)>> :
                 e \in {x \in edges : x.target_symbol_id = id}})
  IN {<<id, ((100 - dampingFactor) * ScoreUnit) \div (100 * N)
            + (dampingFactor * (inScore(id) + danglingMass \div N)) \div 100>> :
        id \in symbolIds}

RECURSIVE PageRank(_, _, _)
PageRank(scores, edges, iter) ==
  IF iter >= iterations THEN scores
  ELSE PageRank(PageRankStep(scores, edges), edges, iter + 1)

\* UPDATE symbols SET importance_score = ? WHERE id = ?, for every update
updateSymbolImportanceBatch(d, updates) ==
  [d EXCEPT !.symbols =
     {IF s.id \in {u[1] : u \in updates}
      THEN [s EXCEPT !.importance_score = ScoreOf(updates, s.id)]
      ELSE s : s \in @}]

rankSymbols(d) ==
  LET edges == d.graph_edges
      symbolIds == {e.source_symbol_id : e \in edges}
                     \cup {e.target_symbol_id : e \in edges}
      N == Cardinality(symbolIds)
      scores == PageRank({<<id, ScoreUnit \div N>> : id \in symbolIds}, edges, 0)
      maxScore == CHOOSE m \in {p[2] : p \in scores} \cup {0} :
                    \A p \in scores : p[2] <= m
  IN IF edges = {} THEN d
     ELSE IF maxScore > 0
       THEN updateSymbolImportanceBatch(
              d, {<<p[1], (p[2] * ScoreUnit) \div maxScore>> : p \in scores})
     ELSE d

\* The index_state writes that end a run.
UpdateIndexState(d, full, now) ==
  LET d1 == setState(d, "last_indexed", ToString(now))
      d2 == IF full THEN setState(d1, "last_full_index", ToString(now)) ELSE d1
      d3 == setState(d2, "embedding_model", "Xenova/all-MiniLM-L6-v2")
      d4 == setState(d3, "total_files", ToString(getStats(d3).totalFiles))
  IN setState(d4, "total_chunks", ToString(getStats(d3).totalChunks))

(***************************************************************************)
(* State.                                                                  *)
(*   tree    the files of the project root: path -> source text or NoFile  *)
(*   db      metadata.db                                                   *)
(*   lance   the vector store and the LanceStore handle of the Project     *)
(*   pc      where runIndexingPipeline stands ("idle": no run in progress) *)
(*   run     the local variables of the run in progress                    *)
(*   runs    the runs started so far; also the clock of new Date()         *)
(*   result  how the last run ended, with what it returned                 *)
(*   srch    the retrieval call in progress: its inputs, position, results *)
(*   proj    the fields of the Project object                               *)
(*   calls   the async calls in flight on the Project                      *)
(*   chunker a chunkFile call on a text: its arguments and its chunks      *)
(*   trav    a getRelatedSymbols call: its database, arguments and result  *)
(***************************************************************************)
VARIABLES tree, db, lance, pc, run, runs, result, srch, proj, calls, chunker, trav

vars == <<tree, db, lance, pc, run, runs, result, srch, proj, calls, chunker, trav>>

\* The variables of the indexing pipeline and those of the Project object
\* and its retrieval calls.
pipelineVars == <<tree, db, lance, pc, run, runs, result>>

retrievalVars == <<srch, proj, calls>>

toolVars == <<chunker, trav>>

\* getRelatedSymbols is not being applied.
NoTraversal == [pc |-> "none"]

\* chunkFile is not being applied on its own.
NoChunking == [pc |-> "none"]

\* No retrieval call in progress.
NoSearch == [pc |-> "none"]

\* A Project just returned by Project.open: nothing initialized, no caller.
NewProject ==
  [_embeddings |-> "null", _embeddingInitPromise |-> "null", _lance |-> "null",
   _closed |-> FALSE]

\* The asynchronous calls in flight on the Project: at most MaxCallers at a
\* time, MaxCalls in all.
MaxCallers == 2

MaxCalls == 3

Callers == 1..MaxCallers

IdleCall == [op |-> "none", pc |-> "idle", awaits |-> "null", own |-> "null", seq |-> 0]

\* No call made yet: no initialization promise was created, initialize() and
\* connect() were never invoked, nothing was closed.
NoCalls ==
  [of |-> [c \in Callers |-> IdleCall], started |-> 0, promises |-> <<>>,
   initCount |-> 0, initFailed |-> 0, stores |-> 0, connected |-> 0,
   lanceReturned |-> {}, sqliteClosed |-> FALSE]

NoRun ==
  [full |-> FALSE, discovered |-> <<>>, addedFiles |-> <<>>, modifiedFiles |-> <<>>,
   removedPaths |-> <<>>, unchanged |-> <<>>, contentCache |-> {},
   filesToProcess |-> <<>>, parsedFiles |-> <<>>, allChunksForEmbedding |-> <<>>,
   vectors |-> <<>>, i |-> 1, j |-> 1, metaDeleted |-> FALSE,
   rowsBefore |-> {}, removedFileIds |-> {},
   prev |-> [outcome |-> "none", tree |-> [p \in Paths |-> NoFile], persisted |-> {},
             failed |-> {}]]

PathsOf(files) == {files[k].relativePath : k \in 1..Len(files)}

\* How a run ended: the IndexResult it returned (for a run that returned)
\* and what the run did, for the properties that speak of a whole run.
Outcome(outcome, r, counts) ==
  [outcome |-> outcome, full |-> r.full, tree |-> tree,
   filesAdded |-> counts[1], filesModified |-> counts[2],
   filesRemoved |-> counts[3], filesUnchanged |-> counts[4],
   added |-> PathsOf(r.addedFiles), modified |-> PathsOf(r.modifiedFiles),
   removed |-> Range(r.removedPaths), unchanged |-> Range(r.unchanged),
   processed |-> PathsOf(r.parsedFiles),
   failed |-> PathsOf(r.filesToProcess) \ PathsOf(r.parsedFiles),
   persisted |-> {r.allChunksForEmbedding[k].filePath :
                    k \in 1..Len(r.allChunksForEmbedding)},
   rowsBefore |-> r.rowsBefore, removedFileIds |-> r.removedFileIds,
   prev |-> r.prev, at |-> runs]

Init ==
  /\ tree = [p \in Paths |-> NoFile]
  /\ db = EmptyDb
  /\ lance = EmptyLance
  /\ pc = "idle"
  /\ run = NoRun
  /\ runs = 0
  /\ result = Outcome("none", NoRun, <<0, 0, 0, 0>>)
  /\ srch = NoSearch
  /\ proj = NewProject
  /\ calls = NoCalls
  /\ chunker = NoChunking
  /\ trav = NoTraversal

(***************************************************************************)
(* The environment between runs.                                           *)
(***************************************************************************)
\* A file is created or overwritten.
WriteFile(p, src) ==
  /\ pc = "idle"
  /\ runs < MaxRuns
  /\ tree[p] # src
  /\ tree' = [tree EXCEPT ![p] = src]
  /\ UNCHANGED <<db, lance, pc, run, runs, result>>
  /\ UNCHANGED <<retrievalVars, toolVars>>

\* A file is deleted.
RemoveFile(p) ==
  /\ pc = "idle"
  /\ runs < MaxRuns
  /\ tree[p] # NoFile
  /\ tree' = [tree EXCEPT ![p] = NoFile]
  /\ UNCHANGED <<db, lance, pc, run, runs, result>>
  /\ UNCHANGED <<retrievalVars, toolVars>>

\* Project.close() followed by Project.open(): a new Project, whose
\* LanceStore has no table handle yet (indexCommand does this for every run).
Reopen ==
  /\ pc = "idle"
  /\ runs < MaxRuns
  /\ lance.table
  /\ lance' = [lance EXCEPT !.table = FALSE]
  /\ UNCHANGED <<tree, db, pc, run, runs, result>>
  /\ UNCHANGED <<retrievalVars, toolVars>>

(***************************************************************************)
(* runIndexingPipeline, one action per stretch of code between awaits.     *)
(***************************************************************************)
\* Phase 1: discovery; a dry run returns here.
StartRun(full, dryRun) ==
  /\ pc = "idle"
  /\ runs < MaxRuns
  /\ runs' = runs + 1
  /\ LET discovered == discoverFiles(tree)
         r == [NoRun EXCEPT !.full = full, !.discovered = discovered,
                            !.rowsBefore = lance.rows,
                            !.prev = [outcome |-> result.outcome, tree |-> result.tree,
                                      persisted |-> result.persisted,
                                      failed |-> result.failed]]
     IN IF dryRun
        THEN /\ result' = [Outcome("dry", r, <<Len(discovered), 0, 0, 0>>)
                             EXCEPT !.at = runs']
             /\ UNCHANGED <<pc, run>>
        ELSE /\ pc' = "diff"
             /\ run' = r
             /\ UNCHANGED result
  /\ UNCHANGED <<tree, db, lance>>
  /\ UNCHANGED <<retrievalVars, toolVars>>

\* Phase 2 of a full run: clear all tables, every discovered file is added.
Phase2Full ==
  /\ pc = "diff"
  /\ run.full
  /\ db' = clearAllData(db)
  /\ run' = [run EXCEPT !.filesToProcess = run.discovered,
                        !.addedFiles = run.discovered]
  /\ pc' = "check"
  /\ UNCHANGED <<tree, lance, runs, result>>
  /\ UNCHANGED <<retrievalVars, toolVars>>

\* Phase 2 of a non-full run: the diff.  An exception of readFileSync in
\* computeDiff rejects the run before anything is written.
Phase2Diff ==
  /\ pc = "diff"
  /\ ~run.full
  /\ LET diff == computeDiff(run.discovered, getFileHashes(db), getFileSizes(db), tree)
     IN IF diff.threw
        THEN /\ pc' = "idle"
             /\ run' = NoRun
             /\ result' = Outcome("failed", run, <<0, 0, 0, 0>>)
        ELSE /\ pc' = "cleanup"
             /\ run' = [run EXCEPT !.addedFiles = diff.added,
                                   !.modifiedFiles = diff.modified,
                                   !.filesToProcess = diff.added \o diff.modified,
                                   !.removedPaths = diff.removed,
                                   !.unchanged = diff.unchanged,
                                   !.removedFileIds =
                                      {FileIdOf(db, q) : q \in Range(diff.removed)},
                                   !.contentCache = diff.contentCache]
             /\ UNCHANGED result
  /\ UNCHANGED <<tree, db, lance, runs>>
  /\ UNCHANGED <<retrievalVars, toolVars>>

\* await lance.deleteByFilePath(removedPath), for the next removed path.
CleanRemovedVectors ==
  /\ pc = "cleanup"
  /\ run.i <= Len(run.removedPaths)
  /\ lance' = deleteByFilePath(lance, run.removedPaths[run.i])
  /\ run' = [run EXCEPT !.i = @ + 1]
  /\ UNCHANGED <<tree, db, pc, runs, result>>
  /\ UNCHANGED <<retrievalVars, toolVars>>

\* The per-file deletes without deleteSymbolsByFile.
DeleteModifiedRows_keepsSymbols(d, path) ==
  LET existing == FileIdOf(d, path)
  IN IF existing = 0 THEN d
     ELSE deleteFileDependenciesByFile(
            deleteEdgesByFile(deleteChunksByFile(d, existing, FALSE), existing),
            existing)

\* The per-file deletes with a full-text rebuild after each of them.
DeleteModifiedRows_rebuilds(d, path) ==
  LET existing == FileIdOf(d, path)
  IN IF existing = 0 THEN d
     ELSE deleteFileDependenciesByFile(
            deleteEdgesByFile(
              deleteChunksByFile(
                deleteSymbolsByFile(d, existing, TRUE), existing, TRUE),
              existing),
            existing)

\* The metadata rows of one modified file.
DeleteModifiedRows(d, path) ==
  LET existing == FileIdOf(d, path)
  IN IF existing = 0 THEN d
     ELSE deleteFileDependenciesByFile(
            deleteEdgesByFile(
              deleteChunksByFile(
                deleteSymbolsByFile(d, existing, FALSE), existing, FALSE),
              existing),
            existing)

\* The four per-file deletes of the next modified file, up to the await.
CleanModifiedMetadata ==
  /\ pc = "cleanup"
  /\ run.i > Len(run.removedPaths)
  /\ run.j <= Len(run.modifiedFiles)
  /\ ~run.metaDeleted
  /\ db' = DeleteModifiedRows(db, run.modifiedFiles[run.j].relativePath)
  /\ run' = [run EXCEPT !.metaDeleted = TRUE]
  /\ UNCHANGED <<tree, lance, pc, runs, result>>
  /\ UNCHANGED <<retrievalVars, toolVars>>

\* await lance.deleteByFilePath(file.relativePath) for that modified file.
CleanModifiedVectors ==
  /\ pc = "cleanup"
  /\ run.metaDeleted
  /\ lance' = deleteByFilePath(lance, run.modifiedFiles[run.j].relativePath)
  /\ run' = [run EXCEPT !.j = @ + 1, !.metaDeleted = FALSE]
  /\ UNCHANGED <<tree, db, pc, runs, result>>
  /\ UNCHANGED <<retrievalVars, toolVars>>

\* Phase 2 without the deferred full-text rebuild.
FinishPhase2_noRebuild(d, modifiedFiles, removedPaths) ==
  IF Len(removedPaths) > 0 THEN deleteFilesByPaths(d, Range(removedPaths)) ELSE d

\* The rest of phase 2: one rebuild of both full-text indexes after the
\* per-file deletes, then the removed files leave the files table.
FinishPhase2(d, modifiedFiles, removedPaths) ==
  LET d1 == IF Len(modifiedFiles) > 0
            THEN rebuildChunksFts(rebuildSymbolsFts(d)) ELSE d
  IN IF Len(removedPaths) > 0 THEN deleteFilesByPaths(d1, Range(removedPaths)) ELSE d1

Phase2Finish ==
  /\ pc = "cleanup"
  /\ run.i > Len(run.removedPaths)
  /\ run.j > Len(run.modifiedFiles)
  /\ db' = FinishPhase2(db, run.modifiedFiles, run.removedPaths)
  /\ pc' = "check"
  /\ UNCHANGED <<tree, lance, run, runs, result>>
  /\ UNCHANGED <<retrievalVars, toolVars>>

Counts(r) ==
  <<Len(r.addedFiles), Len(r.modifiedFiles), Len(r.removedPaths), Len(r.unchanged)>>

\* if (filesToProcess.length === 0) return {...}
ReturnNothingToProcess ==
  /\ pc = "check"
  /\ Len(run.filesToProcess) = 0
  /\ result' = Outcome("completed", run,
                       <<0, 0, Len(run.removedPaths), Len(run.unchanged)>>)
  /\ pc' = "idle"
  /\ run' = NoRun
  /\ UNCHANGED <<tree, db, lance, runs>>
  /\ UNCHANGED <<retrievalVars, toolVars>>

\* Phases 3 and 4: parse and chunk every file to process; a file whose
\* processing throws is logged and left out.
Phase3Parse ==
  /\ pc = "check"
  /\ Len(run.filesToProcess) > 0
  /\ run' = [run EXCEPT
               !.parsedFiles = ParseFiles(run.filesToProcess, 1, run.contentCache, tree),
               !.contentCache = {}]
  /\ pc' = "persist"
  /\ UNCHANGED <<tree, db, lance, runs, result>>
  /\ UNCHANGED <<retrievalVars, toolVars>>

\* Phase 5: file records, symbols, parents and chunks of every parsed file.
Phase5Persist ==
  /\ pc = "persist"
  /\ LET acc == PersistFiles([db |-> db, all |-> <<>>], run.parsedFiles, 1)
     IN /\ db' = acc.db
        /\ run' = [run EXCEPT !.allChunksForEmbedding = acc.all]
  /\ pc' = "embed"
  /\ UNCHANGED <<tree, lance, runs, result>>
  /\ UNCHANGED <<retrievalVars, toolVars>>

\* Phase 6: await batchEmbed(texts, ...).
Phase6Embed ==
  /\ pc = "embed"
  /\ run' = [run EXCEPT !.vectors =
               batchEmbed([k \in 1..Len(run.allChunksForEmbedding) |->
                             run.allChunksForEmbedding[k].content])]
  /\ pc' = "store"
  /\ UNCHANGED <<tree, db, lance, runs, result>>
  /\ UNCHANGED <<retrievalVars, toolVars>>

\* if (lanceRecords.length > 0) createTable on a full run, else addRecords.
StoreRecords(l, full, records) ==
  IF records = {} THEN l
  ELSE IF full THEN createTable(l, records)
  ELSE addRecords(l, records)

Phase6Store ==
  /\ pc = "store"
  /\ lance' = StoreRecords(lance, run.full,
                           LanceRecords(run.allChunksForEmbedding, run.vectors))
  /\ pc' = "graph"
  /\ UNCHANGED <<tree, db, run, runs, result>>
  /\ UNCHANGED <<retrievalVars, toolVars>>

\* Phases 7 to 9, the index state, and the return.
FinishRun ==
  /\ pc = "graph"
  /\ db' = UpdateIndexState(rankSymbols(buildGraph(db, run.parsedFiles)),
                            run.full, runs)
  /\ result' = Outcome("completed", run, Counts(run))
  /\ pc' = "idle"
  /\ run' = NoRun
  /\ UNCHANGED <<tree, lance, runs>>
  /\ UNCHANGED <<retrievalVars, toolVars>>

\* An await of the run rejects (a vector-store error, an embedding batch
\* that fails, a cancellation): the run ends where it stands.
AwaitPending ==
  \/ pc = "cleanup" /\ (run.i <= Len(run.removedPaths) \/ run.metaDeleted)
  \/ pc = "embed"
  \/ pc = "store" /\ Len(run.allChunksForEmbedding) > 0

Abort ==
  /\ AwaitPending
  /\ result' = Outcome("aborted", run, <<0, 0, 0, 0>>)
  /\ pc' = "idle"
  /\ run' = NoRun
  /\ UNCHANGED <<tree, db, lance, runs>>
  /\ UNCHANGED <<retrievalVars, toolVars>>

Next ==
  \/ \E p \in Paths : \E src \in SourcesAt(p) : WriteFile(p, src)
  \/ \E p \in Paths : RemoveFile(p)
  \/ Reopen
  \/ \E full \in BOOLEAN, dryRun \in BOOLEAN : StartRun(full, dryRun)
  \/ Phase2Full
  \/ Phase2Diff
  \/ CleanRemovedVectors
  \/ CleanModifiedMetadata
  \/ CleanModifiedVectors
  \/ Phase2Finish
  \/ ReturnNothingToProcess
  \/ Phase3Parse
  \/ Phase5Persist
  \/ Phase6Embed
  \/ Phase6Store
  \/ FinishRun

\* Runs in which every await resolves.
Spec == Init /\ [][Next]_vars

\* Runs that may also be cut short at an await.
NextAbort == Next \/ Abort

SpecAbort == Init /\ [][NextAbort]_vars

\* Runs over trees whose b.ts exercises the parser: no grammar, a raised
\* error, a method named like its class.
ParseSourcesAt(p) == IF p = "a.ts" THEN {"A1"} ELSE {"B1", "BN", "BT", "BP"}

NextParse ==
  \/ \E p \in Paths : \E src \in ParseSourcesAt(p) : WriteFile(p, src)
  \/ \E p \in Paths : RemoveFile(p)
  \/ \E full \in BOOLEAN : StartRun(full, FALSE)
  \/ Phase2Full
  \/ Phase2Diff
  \/ CleanRemovedVectors
  \/ CleanModifiedMetadata
  \/ CleanModifiedVectors
  \/ Phase2Finish
  \/ ReturnNothingToProcess
  \/ Phase3Parse
  \/ Phase5Persist
  \/ Phase6Embed
  \/ Phase6Store
  \/ FinishRun

SpecParse == Init /\ [][NextParse]_vars

(***************************************************************************)
(* Properties.                                                             *)
(***************************************************************************)
\* The last run returned normally and was not a dry run.
Completed == pc = "idle" /\ result.outcome = "completed"

Present(t) == {p \in Paths : t[p] # NoFile}

Unreadable(t) == {p \in Present(t) : ~SourceTable[t[p]].readable}

SymbolsOfPath(p) == {s \in db.symbols : s.file_id = FileIdOf(db, p) /\ s.file_id # 0}

ChunksOfPath(p) == {c \in db.chunks : c.file_id = FileIdOf(db, p) /\ c.file_id # 0}

VectorsOfPath(rows, p) == {r \in rows : r.file_path = p}

\* The run that just completed was a non-full run right after a completed
\* run over the same tree.
Rerun ==
  /\ Completed
  /\ ~result.full
  /\ result.prev.outcome = "completed"
  /\ result.prev.tree = result.tree

NoDuplicates(seq) == Cardinality(Range(seq)) = Len(seq)

C2_DiffPartition ==
  (pc = "cleanup") =>
    LET discovered == PathsOf(run.discovered)
        persisted == {f.path : f \in db.files}
        added == PathsOf(run.addedFiles)
        modified == PathsOf(run.modifiedFiles)
        unchanged == Range(run.unchanged)
        removed == Range(run.removedPaths)
    IN /\ added \cup modified \cup unchanged = discovered
       /\ added \cap modified = {}
       /\ added \cap unchanged = {}
       /\ modified \cap unchanged = {}
       /\ NoDuplicates([k \in 1..Len(run.addedFiles) |-> run.addedFiles[k].relativePath])
       /\ NoDuplicates([k \in 1..Len(run.modifiedFiles) |->
                           run.modifiedFiles[k].relativePath])
       /\ NoDuplicates(run.unchanged)
       /\ NoDuplicates(run.removedPaths)
       /\ removed = persisted \ discovered
       /\ Len(run.addedFiles) + Len(run.modifiedFiles) + Len(run.unchanged)
            + Len(run.removedPaths) = Cardinality(discovered \cup persisted)

C2_Witness ==
  /\ pc = "cleanup"
  /\ run.i = 1 /\ run.j = 1 /\ ~run.metaDeleted
  /\ Len(run.modifiedFiles) = 1
  /\ Len(run.removedPaths) = 1

\* C3: at the end of every completed run the row ids of symbols_fts are the
\* ids of symbols and the row ids of chunks_fts are the ids of chunks.
C3_FullTextConsistent ==
  Completed =>
    /\ db.symbols_fts = {s.id : s \in db.symbols}
    /\ db.chunks_fts = {c.id : c \in db.chunks}

C3_Witness ==
  /\ Completed
  /\ ~result.full
  /\ result.modified \cap result.processed # {}
  /\ db.symbols_fts # {}

\* C4: in every state every chunk row and every symbol row references an
\* existing file row, and both ends of every graph edge reference existing
\* symbol rows.
C4_ReferentialIntegrity ==
  LET fileIds == {f.id : f \in db.files}
      symbolIds == {s.id : s \in db.symbols}
  IN /\ \A c \in db.chunks : c.file_id \in fileIds
     /\ \A s \in db.symbols : s.file_id \in fileIds
     /\ \A e \in db.graph_edges :
          e.source_symbol_id \in symbolIds /\ e.target_symbol_id \in symbolIds

C4_Witness ==
  /\ pc = "check"
  /\ run.removedFileIds # {}
  /\ db.symbols # {}
  /\ db.chunks # {}

\* The rows the pipeline writes for a source text.
SymbolShapes(src) ==
  {<<x.name, x.startLine, x.endLine>> : x \in Range(SourceTable[src].symbols)}

\* C5: after a completed non-full run that classified a file as modified,
\* the symbol and chunk rows of the file are exactly those of its new
\* content, one row each (none when the file could not be processed); no row
\* of an earlier version is left.
C5_NoStaleRows ==
  (Completed /\ ~result.full) =>
    \A p \in result.modified :
      LET src == result.tree[p]
          ok == p \in result.processed
      IN /\ {<<s.name, s.start_line, s.end_line>> : s \in SymbolsOfPath(p)}
              = (IF ok THEN SymbolShapes(src) ELSE {})
         /\ Cardinality(SymbolsOfPath(p))
              = (IF ok THEN Len(SourceTable[src].symbols) ELSE 0)
         /\ {c.content : c \in ChunksOfPath(p)}
              = (IF ok THEN {<<src, k - 1>> : k \in 1..Len(chunkFile(src))} ELSE {})
         /\ Cardinality(ChunksOfPath(p)) = (IF ok THEN Len(chunkFile(src)) ELSE 0)

C5_Witness ==
  /\ Completed
  /\ ~result.full
  /\ "b.ts" \in result.modified \cap result.processed
  /\ result.tree["b.ts"] = "B3"

\* C6: after a completed non-full run in which an indexed path was not
\* discovered, no file row, symbol row, chunk row, graph edge, file
\* dependency, full-text row or vector row of that path is left.
C6_RemovalComplete ==
  (Completed /\ ~result.full) =>
    LET gone == result.removedFileIds
    IN /\ \A f \in db.files : f.path \notin result.removed /\ f.id \notin gone
       /\ \A s \in db.symbols : s.file_id \notin gone
       /\ \A c \in db.chunks : c.file_id \notin gone
       /\ \A e \in db.graph_edges :
            e.source_file_id \notin gone /\ e.target_file_id \notin gone
       /\ \A x \in db.file_dependencies :
            x.source_file_id \notin gone /\ x.target_file_id \notin gone
       /\ db.symbols_fts \subseteq {s.id : s \in db.symbols}
       /\ db.chunks_fts \subseteq {c.id : c \in db.chunks}
       /\ \A r \in lance.rows : r.file_path \notin result.removed /\ r.file_id \notin gone

C6_Witness ==
  /\ Completed
  /\ ~result.full
  /\ result.removed = {"b.ts"}
  /\ db.symbols # {}
  /\ lance.rows # {}

\* C7: at the end of every completed non-dry run every vector-store record
\* has the chunk_id of an existing chunk row.
C7_VectorsHaveChunks ==
  Completed => \A r \in lance.rows : \E c \in db.chunks : c.id = r.chunk_id

\* C8: after a completed non-full run the vector rows of every unchanged
\* file are the rows it had before the run, and every added or modified file
\* has exactly one vector row per chunk row.
C8_NonFullRunAppends ==
  (Completed /\ ~result.full) =>
    /\ \A p \in result.unchanged :
         VectorsOfPath(lance.rows, p) = VectorsOfPath(result.rowsBefore, p)
    /\ \A p \in result.added \cup result.modified :
         {r.chunk_id : r \in VectorsOfPath(lance.rows, p)}
           = {c.id : c \in ChunksOfPath(p)}

\* C9: when a run is cut short after it persisted a file's record, symbols
\* and chunks, the next completed non-full run over the same tree leaves
\* every chunk row of that file with a vector row.
C9_RecoverableAfterAbort ==
  (/\ Completed
   /\ ~result.full
   /\ result.prev.outcome = "aborted"
   /\ result.prev.tree = result.tree) =>
    \A p \in result.prev.persisted :
      \A c \in ChunksOfPath(p) : \E r \in lance.rows : r.chunk_id = c.id

\* C10: every completed non-dry run sets last_indexed.
C10_LastIndexedSet ==
  Completed =>
    [key |-> "last_indexed", value |-> ToString(result.at)] \in db.index_state

\* The value stored under a key of index_state, as a set (empty when unset).
getState(d, key) == {x.value : x \in {y \in d.index_state : y.key = key}}

\* C11: at the end of every completed non-dry run total_files is the number
\* of file rows and total_chunks the number of chunk rows, and last_full_index
\* changes only in the steps of a full run.
C11_StateCountsCurrent ==
  /\ [](Completed =>
          /\ getState(db, "total_files") = {ToString(Cardinality(db.files))}
          /\ getState(db, "total_chunks") = {ToString(Cardinality(db.chunks))})
  /\ [][getState(db', "last_full_index") # getState(db, "last_full_index")
          => run.full]_vars

\* The file ids of the symbol row with this id.
FileOfSymbol(id) == {s.file_id : s \in {x \in db.symbols : x.id = id}}

\* C12: no calls edge joins two symbols of one file, no calls edge joins a
\* symbol to itself, and no two edge rows share (source symbol, target
\* symbol, edge type).
C12_GraphWellFormed ==
  /\ \A e \in db.graph_edges :
       e.edge_type = "calls" =>
         /\ e.source_file_id # e.target_file_id
         /\ FileOfSymbol(e.source_symbol_id) \cap FileOfSymbol(e.target_symbol_id) = {}
         /\ e.source_symbol_id # e.target_symbol_id
  /\ \A e1, e2 \in db.graph_edges :
       (/\ e1.source_symbol_id = e2.source_symbol_id
        /\ e1.target_symbol_id = e2.target_symbol_id
        /\ e1.edge_type = e2.edge_type) => e1.id = e2.id

C12_Witness ==
  /\ Completed
  /\ ~result.full
  /\ \E e \in db.graph_edges : e.edge_type = "calls"
  /\ \E e \in db.graph_edges : e.edge_type = "imports"
  /\ \E s, t \in db.symbols : s.name = t.name /\ s.file_id # t.file_id

\* C13: after a completed run that indexed at least one symbol every
\* importance score lies in [0, 1] and some symbol has importance exactly 1.
C13_ImportanceNormalized ==
  (Completed /\ \E p \in result.processed : SymbolsOfPath(p) # {}) =>
    /\ \A s \in db.symbols :
         s.importance_score >= 0 /\ s.importance_score <= ScoreUnit
    /\ \E s \in db.symbols : s.importance_score = ScoreUnit

(***************************************************************************)
(* Retrieval: reciprocalRankFusion.  A SearchResult keeps the fields the   *)
(* reranker reads.  Scores are exact fractions over ScoreDenominator, the  *)
(* product of the divisors k + rank + 1 that can occur; weights are in     *)
(* tenths.                                                                 *)
(***************************************************************************)
MaxSources == 2

MaxSourceLen == 2

k == 60

SearchResult(path, s, e, content, matchType) ==
  [filePath |-> path, startLine |-> s, endLine |-> e, content |-> content,
   score |-> 0, matchType |-> matchType]

\* The results the sources of a fusion are drawn from: two of them share
\* path and lines, with contents of different length.
FusionResults ==
  {SearchResult("a.ts", 1, 5, "function caller() { foo(); }", "vector"),
   SearchResult("a.ts", 1, 5, "caller()", "symbol"),
   SearchResult("b.ts", 1, 5, "function foo() {}", "keyword")}

\* All lists over S of length at most n.
ListsUpTo(S, n) == UNION {[1..m -> S] : m \in 0..n}

\* 0.5, 0.3, 0.2, ... in tenths, by the position of the source.
SourceWeight(i) == IF i = 1 THEN 5 ELSE IF i = 2 THEN 3 ELSE 2

\* The weighted sources made of these result lists.
WeightedSources(lists) ==
  [i \in 1..Len(lists) |-> [results |-> lists[i], weight |-> SourceWeight(i)]]

RECURSIVE ProductFrom(_, _)
ProductFrom(first, n) == IF n = 0 THEN 1 ELSE first * ProductFrom(first + 1, n - 1)

ScoreDenominator == ProductFrom(k + 1, MaxSourceLen + 1)

\* `${r.filePath}:${r.startLine}-${r.endLine}`
FusionKey(r) ==
  r.filePath \o ":" \o ToString(r.startLine) \o "-" \o ToString(r.endLine)

\* The merge without the replacement by the longer content.
FuseOne_keepsFirst(merged, r, weight, rank) ==
  LET key == FusionKey(r)
      rrfScore == (weight * ScoreDenominator) \div (k + rank + 1)
      hit == {i \in 1..Len(merged) : merged[i].key = key}
  IN IF hit # {}
     THEN LET i == CHOOSE j \in hit : TRUE
          IN [merged EXCEPT ![i].score = @ + rrfScore]
     ELSE Append(merged, [key |-> key, score |-> rrfScore, result |-> r])

\* The body of the inner loop: merge one result at one rank into the map,
\* kept as the list of its entries in insertion order.
FuseOne(merged, r, weight, rank) ==
  LET key == FusionKey(r)
      rrfScore == (weight * ScoreDenominator) \div (k + rank + 1)
      hit == {i \in 1..Len(merged) : merged[i].key = key}
  IN IF hit # {}
     THEN LET i == CHOOSE j \in hit : TRUE
              score == merged[i].score + rrfScore
          IN [merged EXCEPT ![i] =
                [key |-> key, score |-> score,
                 result |-> IF Len(r.content) > Len(merged[i].result.content)
                            THEN [r EXCEPT !.score = score]
                            ELSE merged[i].result]]
     ELSE Append(merged, [key |-> key, score |-> rrfScore, result |-> r])

RECURSIVE FuseSource(_, _, _, _)
FuseSource(merged, results, weight, rank) ==
  IF rank >= Len(results) THEN merged
  ELSE FuseSource(FuseOne(merged, results[rank + 1], weight, rank),
                  results, weight, rank + 1)

RECURSIVE FuseSources(_, _, _)
FuseSources(merged, sources, i) ==
  IF i > Len(sources) THEN merged
  ELSE FuseSources(FuseSource(merged, sources[i].results, sources[i].weight, 0),
                   sources, i + 1)

\* Array.prototype.sort((a, b) => b.score - a.score): stable, descending.
RECURSIVE SortByScore(_)
SortByScore(entries) ==
  IF entries = <<>> THEN <<>>
  ELSE LET best == CHOOSE i \in 1..Len(entries) :
                     /\ \A j \in 1..Len(entries) : entries[j].score <= entries[i].score
                     /\ \A j \in 1..(i - 1) : entries[j].score < entries[i].score
       IN <<entries[best]>>
            \o SortByScore(SubSeq(entries, 1, best - 1)
                             \o SubSeq(entries, best + 1, Len(entries)))

reciprocalRankFusion(sources) ==
  LET sorted == SortByScore(FuseSources(<<>>, sources, 1))
  IN [i \in 1..Len(sorted) |-> [sorted[i].result EXCEPT !.score = sorted[i].score]]

\* A fusion of arbitrary sources.
InitFusion ==
  /\ tree = [p \in Paths |-> NoFile]
  /\ db = EmptyDb
  /\ lance = EmptyLance
  /\ pc = "idle"
  /\ run = NoRun
  /\ runs = 0
  /\ result = Outcome("none", NoRun, <<0, 0, 0, 0>>)
  /\ proj = NewProject
  /\ calls = NoCalls
  /\ chunker = NoChunking
  /\ trav = NoTraversal
  /\ \E n \in 0..MaxSources :
       \E lists \in [1..n -> ListsUpTo(FusionResults, MaxSourceLen)] :
         srch = [pc |-> "fusion", sources |-> WeightedSources(lists),
                 results |-> <<>>]

Fuse ==
  /\ srch.pc = "fusion"
  /\ srch' = [srch EXCEPT !.pc = "fused",
                          !.results = reciprocalRankFusion(srch.sources)]
  /\ UNCHANGED <<pipelineVars, toolVars, proj, calls>>

NextFusion == Fuse

SpecFusion == InitFusion /\ [][NextFusion]_vars

\* The places <<source, rank>> (rank 0-based) at which the sources list a
\* result with this path and these lines.
Occurrences(sources, path, s, e) ==
  {x \in UNION {{<<i, r>> : r \in 0..(Len(sources[i].results) - 1)} :
                  i \in 1..Len(sources)} :
     LET q == sources[x[1]].results[x[2] + 1]
     IN q.filePath = path /\ q.startLine = s /\ q.endLine = e}

\* C14: reciprocalRankFusion returns one result for every distinct (path,
\* start line, end line) of the sources; its score is the sum of
\* weight / (60 + rank + 1) over the places where it occurs; the results are
\* in non-increasing score order; the result kept is an occurrence of the
\* greatest content length.
C14_FusionScores ==
  (srch.pc = "fused") =>
    LET out == srch.results
        sources == srch.sources
        occ(r) == Occurrences(sources, r.filePath, r.startLine, r.endLine)
        triples(rs) == {<<rs[i].filePath, rs[i].startLine, rs[i].endLine>> :
                          i \in 1..Len(rs)}
    IN /\ triples(out) = UNION {triples(sources[i].results) : i \in 1..Len(sources)}
       /\ Cardinality(triples(out)) = Len(out)
       /\ \A i \in 1..Len(out) :
            /\ out[i].score
                 = SumOf({<<x, (sources[x[1]].weight * ScoreDenominator)
                                 \div (60 + x[2] + 1)>> : x \in occ(out[i])})
            /\ \E x \in occ(out[i]) :
                 out[i] = [sources[x[1]].results[x[2] + 1] EXCEPT !.score = out[i].score]
            /\ \A x \in occ(out[i]) :
                 Len(sources[x[1]].results[x[2] + 1].content) <= Len(out[i].content)
       /\ \A i \in 1..(Len(out) - 1) : out[i].score >= out[i + 1].score

C14_Witness ==
  /\ srch.pc = "fused"
  /\ Len(srch.results) = 2
  /\ \E i \in 1..2 :
       /\ srch.results[i].score > (5 * ScoreDenominator) \div 61
       /\ srch.results[i].matchType = "vector"
       /\ srch.sources[1].results[1].matchType = "symbol"

(***************************************************************************)
(* Retrieval: hybridSearch on a newly opened Project.  srch holds the      *)
(* options of the call, where the call stands, what the vector source      *)
(* returned, the list handed to deduplicateResults (fused) and the list    *)
(* returned (results).  What the three sources find is chosen when they    *)
(* are queried; every await of the vector branch may reject.               *)
(***************************************************************************)
MaxLimit == 2

\* Chunks of a.ts with overlapping line ranges, and one chunk of b.ts.
ChunkHit(path, s, e, matchType) ==
  SearchResult(path, s, e, "// File: " \o path \o "\nexport function f() {}", matchType)

VectorHits ==
  {ChunkHit("a.ts", 1, 5, "vector"), ChunkHit("a.ts", 4, 10, "vector"),
   ChunkHit("b.ts", 1, 5, "vector")}

KeywordHits ==
  {ChunkHit("a.ts", 1, 5, "keyword"), ChunkHit("a.ts", 4, 10, "keyword"),
   ChunkHit("a.ts", 8, 12, "keyword")}

SymbolHits ==
  {SearchResult("a.ts", 2, 2, "caller()", "symbol"),
   SearchResult("a.ts", 9, 9, "run()", "symbol"),
   SearchResult("b.ts", 1, 1, "foo()", "symbol")}

\* The lists a source can return: distinct rows, at most MaxSourceLen.
HitLists(S) ==
  {l \in ListsUpTo(S, MaxSourceLen) : \A i, j \in 1..Len(l) : l[i] = l[j] => i = j}

\* What the full-text query of keywordSearch / symbolSearch does: it throws
\* (FTS5 syntax error) or returns rows.
FtsOutcomes(S) ==
  {[throws |-> TRUE, hits |-> <<>>]} \cup {[throws |-> FALSE, hits |-> l] : l \in HitLists(S)}

\* keywordSearch and symbolSearch: the catch turns an error into [].
keywordSearch(outcome) == IF outcome.throws THEN <<>> ELSE outcome.hits

symbolSearch(outcome) == IF outcome.throws THEN <<>> ELSE outcome.hits

\* r.startLine <= s.endLine && r.endLine >= s.startLine, on one path
OverlapsResult(r, q) ==
  r.filePath = q.filePath /\ r.startLine <= q.endLine /\ r.endLine >= q.startLine

RECURSIVE DedupFrom(_, _, _)
DedupFrom(results, i, seen) ==
  IF i > Len(results) THEN <<>>
  ELSE IF \E n \in 1..Len(seen) : OverlapsResult(results[i], seen[n])
    THEN DedupFrom(results, i + 1, seen)
  ELSE <<results[i]>> \o DedupFrom(results, i + 1, Append(seen, results[i]))

\* A deduplication that compares with every earlier result, kept or not.
deduplicateResults_seenAll(results) ==
  LET RECURSIVE Keep(_)
      Keep(i) == IF i > Len(results) THEN <<>>
                 ELSE (IF \E n \in 1..(i - 1) : OverlapsResult(results[i], results[n])
                       THEN <<>> ELSE <<results[i]>>) \o Keep(i + 1)
  IN Keep(1)

deduplicateResults(results) == DedupFrom(results, 1, <<>>)

\* results.filter(r => regex.test(r.filePath)) for a pattern without
\* wildcards, which the escaping turns into a literal match.
ApplyFileFilter(results, fileFilter) ==
  IF fileFilter = "" THEN results
  ELSE LET RECURSIVE Keep(_)
           Keep(i) == IF i > Len(results) THEN <<>>
                      ELSE (IF results[i].filePath = fileFilter
                            THEN <<results[i]>> ELSE <<>>) \o Keep(i + 1)
       IN Keep(1)

\* results.slice(0, limit)
Slice(results, limit) == SubSeq(results, 1, IF Len(results) < limit THEN Len(results) ELSE limit)

SearchModes == {"hybrid", "vector", "keyword", "symbol"}

InitSearch ==
  /\ tree = [p \in Paths |-> NoFile]
  /\ db = EmptyDb
  /\ lance = EmptyLance
  /\ pc = "idle"
  /\ run = NoRun
  /\ runs = 0
  /\ result = Outcome("none", NoRun, <<0, 0, 0, 0>>)
  /\ proj = NewProject
  /\ calls = NoCalls
  /\ chunker = NoChunking
  /\ trav = NoTraversal
  /\ \E mode \in SearchModes, limit \in 1..MaxLimit,
        tokenBudget \in {40, 4000}, fileFilter \in {"", "a.ts"} :
       srch = [pc |-> "called", mode |-> mode, limit |-> limit,
               tokenBudget |-> tokenBudget, fileFilter |-> fileFilter,
               failed |-> "none", vecResults |-> <<>>, fused |-> <<>>,
               results |-> <<>>]

\* if (!project.hasEmbeddings) await project.initEmbeddings()
SearchInitEmbeddings ==
  /\ srch.pc = "called"
  /\ srch.mode \in {"vector", "hybrid"}
  /\ \E ok \in BOOLEAN :
       IF ok THEN /\ proj' = [proj EXCEPT !._embeddings = "provider"]
                  /\ srch' = [srch EXCEPT !.pc = "embedQuery"]
       ELSE /\ srch' = [srch EXCEPT !.pc = "rejected", !.failed = "initEmbeddings"]
            /\ UNCHANGED proj
  /\ UNCHANGED <<pipelineVars, toolVars, calls>>

\* await project.embeddings.embedQuery(options.query)
SearchEmbedQuery ==
  /\ srch.pc = "embedQuery"
  /\ \E ok \in BOOLEAN :
       srch' = IF ok THEN [srch EXCEPT !.pc = "getLance"]
               ELSE [srch EXCEPT !.pc = "rejected", !.failed = "embedQuery"]
  /\ UNCHANGED <<pipelineVars, toolVars, proj, calls>>

\* await project.getLance()
SearchGetLance ==
  /\ srch.pc = "getLance"
  /\ \E ok \in BOOLEAN :
       IF ok THEN /\ proj' = [proj EXCEPT !._lance = "store"]
                  /\ srch' = [srch EXCEPT !.pc = "vectorSearch"]
       ELSE /\ srch' = [srch EXCEPT !.pc = "rejected", !.failed = "getLance"]
            /\ UNCHANGED proj
  /\ UNCHANGED <<pipelineVars, toolVars, calls>>

\* await vectorSearch(lance, queryVector, ...): the query of the vector
\* table returns rows or rejects.
SearchVectorSearch ==
  /\ srch.pc = "vectorSearch"
  /\ \/ \E hits \in HitLists(VectorHits) :
          srch' = [srch EXCEPT !.pc = "sources", !.vecResults = hits]
     \/ srch' = [srch EXCEPT !.pc = "rejected", !.failed = "vectorSearch"]
  /\ UNCHANGED <<pipelineVars, toolVars, proj, calls>>

\* The rest of the call, which has no await: the keyword and symbol
\* queries, the fusion, the file filter, the deduplication and the slice.
SearchRespond ==
  /\ \/ srch.pc = "sources"
     \/ srch.pc = "called" /\ srch.mode \in {"keyword", "symbol"}
  /\ \E kw \in FtsOutcomes(KeywordHits), sym \in FtsOutcomes(SymbolHits) :
       /\ srch.mode \in {"vector", "symbol"} => kw = [throws |-> FALSE, hits |-> <<>>]
       /\ srch.mode \in {"vector", "keyword"} => sym = [throws |-> FALSE, hits |-> <<>>]
       /\ LET found ==
                CASE srch.mode = "vector" -> srch.vecResults
                  [] srch.mode = "keyword" -> keywordSearch(kw)
                  [] srch.mode = "symbol" -> symbolSearch(sym)
                  [] OTHER ->
                       reciprocalRankFusion(
                         <<[results |-> srch.vecResults, weight |-> 5],
                           [results |-> keywordSearch(kw), weight |-> 3],
                           [results |-> symbolSearch(sym), weight |-> 2]>>)
              filtered == ApplyFileFilter(found, srch.fileFilter)
          IN srch' = [srch EXCEPT
                        !.pc = "resolved",
                        !.failed = IF kw.throws THEN "keywordSearch"
                                   ELSE IF sym.throws THEN "symbolSearch" ELSE "none",
                        !.fused = filtered,
                        !.results = Slice(deduplicateResults(filtered), srch.limit)]
  /\ UNCHANGED <<pipelineVars, toolVars, proj, calls>>

NextSearch ==
  \/ SearchInitEmbeddings
  \/ SearchEmbedQuery
  \/ SearchGetLance
  \/ SearchVectorSearch
  \/ SearchRespond

SpecSearch == InitSearch /\ [][NextSearch]_vars

InSeq(x, list) == \E n \in 1..Len(list) : list[n] = x

\* list is sub with some elements removed, the order of the rest unchanged.
IsSubsequence(sub, list) ==
  \E f \in [1..Len(sub) -> 1..Len(list)] :
    /\ \A n \in 1..Len(sub) : list[f[n]] = sub[n]
    /\ \A m, n \in 1..Len(sub) : m < n => f[m] < f[n]

NoOverlappingPair(list) ==
  \A m, n \in 1..Len(list) : m # n => ~OverlapsResult(list[m], list[n])

\* C15 as stated: in every mode no two returned results overlap in one file,
\* the returned list is a subsequence of the list before deduplication, and
\* of any two overlapping results of that list the later one is not returned.
C15_DedupFirstSeenKept ==
  srch.pc = "resolved" =>
    /\ NoOverlappingPair(srch.results)
    /\ IsSubsequence(srch.results, srch.fused)
    /\ \A i, j \in 1..Len(srch.fused) :
         (i < j /\ OverlapsResult(srch.fused[i], srch.fused[j]))
           => ~InSeq(srch.fused[j], srch.results)

\* C15 amended: no two returned results overlap, the returned list is a
\* subsequence of the list before deduplication, and a result that is not
\* returned overlaps an earlier RETURNED result or was cut by the limit; a
\* result overlapping only dropped results is kept.
C15_DedupDropsOverlapWithKept ==
  srch.pc = "resolved" =>
    /\ NoOverlappingPair(srch.results)
    /\ IsSubsequence(srch.results, srch.fused)
    /\ Len(srch.results) <= srch.limit
    /\ \A j \in 1..Len(srch.fused) :
         ~InSeq(srch.fused[j], srch.results) =>
           \/ \E i \in 1..(j - 1) :
                /\ InSeq(srch.fused[i], srch.results)
                /\ OverlapsResult(srch.fused[i], srch.fused[j])
           \/ Len(srch.results) = srch.limit

\* A chain a, b, c of one file where b overlaps both others: a and c are
\* returned and b is not.
C15_Witness ==
  /\ srch.pc = "resolved"
  /\ \E i, j, l \in 1..Len(srch.fused) :
       /\ i < j /\ j < l
       /\ OverlapsResult(srch.fused[i], srch.fused[j])
       /\ OverlapsResult(srch.fused[j], srch.fused[l])
       /\ InSeq(srch.fused[i], srch.results)
       /\ ~InSeq(srch.fused[j], srch.results)
       /\ InSeq(srch.fused[l], srch.results)

\* Math.ceil(text.length / 3.5)
estimateTokens(text) == (2 * Len(text) + 6) \div 7

\* The per-result overhead the budget counts for metadata.
ResultCost(r) == estimateTokens(r.content) + 20

TruncationMark == "\n// ... (truncated)"

IsTruncated(r) ==
  /\ Len(r.content) >= Len(TruncationMark)
  /\ SubSeq(r.content, Len(r.content) - Len(TruncationMark) + 1, Len(r.content))
       = TruncationMark

RECURSIVE UntruncatedCost(_, _)
UntruncatedCost(list, n) ==
  IF n = 0 THEN 0
  ELSE UntruncatedCost(list, n - 1)
         + (IF IsTruncated(list[n]) THEN 0 ELSE ResultCost(list[n]))

\* C16: the results hybridSearch hands back cost, truncated tail aside, at
\* most tokenBudget (estimated tokens of the content plus 20 each); at most
\* one result is truncated and it is the last; a result that does not fit
\* has nothing after it; and at most limit results are returned.
C16_TokenBudget ==
  srch.pc = "resolved" =>
    LET out == srch.results
    IN /\ UntruncatedCost(out, Len(out)) <= srch.tokenBudget
       /\ \A n \in 1..Len(out) : IsTruncated(out[n]) => n = Len(out)
       /\ \A n \in 1..Len(out) :
            UntruncatedCost(out, n) > srch.tokenBudget => n = Len(out)
       /\ Len(out) <= srch.limit

(***************************************************************************)
(* Project: initEmbeddings, getLance and close as asynchronous calls.      *)
(* Each call runs to its first await in one step and resumes in a later    *)
(* step, so the calls of different callers interleave at the awaits.       *)
(* A promise created by initEmbeddings is named by its position in         *)
(* calls.promises, a LanceStore instance by the order of its creation.     *)
(***************************************************************************)
PromiseAt(id) == calls.promises[CHOOSE i \in 1..Len(calls.promises) : ToString(i) = id]

CanStart(c) ==
  /\ calls.of[c].pc \in {"idle", "resolved", "rejected"}
  /\ calls.started < MaxCalls

InitInFlight_never(p) == FALSE

\* if (this._embeddingInitPromise)
InitInFlight(p) == p._embeddingInitPromise # "null"

\* initEmbeddings(provider?) up to its await: wait for the initialization
\* in flight, return when a provider is set, or start the initialization,
\* which runs to its own first await (provider.initialize() of a supplied
\* provider, the import of the default one).
InitEmbeddingsCall(c) ==
  /\ CanStart(c)
  /\ \E provider \in {"none", "custom"} :
       LET id == ToString(Len(calls.promises) + 1)
           begun == [calls EXCEPT !.started = @ + 1]
       IN IF InitInFlight(proj)
            THEN /\ calls' = [begun EXCEPT !.of[c] =
                       [op |-> "initEmbeddings", pc |-> "awaiting",
                        awaits |-> proj._embeddingInitPromise, own |-> "null",
                        seq |-> calls.started + 1]]
                 /\ UNCHANGED proj
          ELSE IF proj._embeddings # "null"
            THEN /\ calls' = [begun EXCEPT !.of[c] =
                       [op |-> "initEmbeddings", pc |-> "resolved",
                        awaits |-> "null", own |-> "null",
                        seq |-> calls.started + 1]]
                 /\ UNCHANGED proj
          ELSE /\ calls' = [begun EXCEPT
                     !.of[c] = [op |-> "initEmbeddings", pc |-> "awaiting",
                                awaits |-> id, own |-> "null",
                                seq |-> calls.started + 1],
                     !.promises = Append(@,
                        [state |-> IF provider = "custom" THEN "initializing"
                                   ELSE "importing",
                         provider |-> provider]),
                     !.initCount = IF provider = "custom" THEN @ + 1 ELSE @]
               /\ proj' = [proj EXCEPT
                     !._embeddingInitPromise = id,
                     !._embeddings = IF provider = "custom" THEN "custom" ELSE @]
  /\ UNCHANGED <<pipelineVars, toolVars, srch>>

\* The import of the default provider resolves: new provider, ep.initialize()
ImportSettles ==
  /\ \E i \in 1..Len(calls.promises) :
       /\ calls.promises[i].state = "importing"
       /\ calls' = [calls EXCEPT !.promises[i].state = "initializing",
                                 !.initCount = @ + 1]
  /\ UNCHANGED <<pipelineVars, toolVars, srch, proj>>

\* initialize() settles; the finally block clears the promise field.
InitializeSettles ==
  /\ \E i \in 1..Len(calls.promises), ok \in BOOLEAN :
       /\ calls.promises[i].state = "initializing"
       /\ calls' = [calls EXCEPT
             !.promises[i].state = IF ok THEN "fulfilled" ELSE "rejected",
             !.initFailed = IF ok THEN @ ELSE @ + 1]
       /\ proj' = [proj EXCEPT
             !._embeddingInitPromise = "null",
             !._embeddings = IF ok /\ calls.promises[i].provider = "none"
                             THEN "default" ELSE @]
  /\ UNCHANGED <<pipelineVars, toolVars, srch>>

\* await this._embeddingInitPromise resumes in a caller
InitEmbeddingsResume(c) ==
  /\ calls.of[c].op = "initEmbeddings"
  /\ calls.of[c].pc = "awaiting"
  /\ PromiseAt(calls.of[c].awaits).state \in {"fulfilled", "rejected"}
  /\ calls' = [calls EXCEPT !.of[c].pc =
        IF PromiseAt(calls.of[c].awaits).state = "fulfilled"
        THEN "resolved" ELSE "rejected"]
  /\ UNCHANGED <<pipelineVars, toolVars, srch, proj>>

\* getLance() up to its await: return the stored connection, or create a
\* LanceStore and start connecting it.
GetLanceCall(c) ==
  /\ CanStart(c)
  /\ IF proj._lance # "null"
       THEN calls' = [calls EXCEPT
              !.started = @ + 1,
              !.of[c] = [op |-> "getLance", pc |-> "resolved",
                         awaits |-> "null", own |-> proj._lance,
                         seq |-> calls.started + 1],
              !.lanceReturned = @ \cup {proj._lance}]
     ELSE calls' = [calls EXCEPT
              !.started = @ + 1,
              !.stores = @ + 1,
              !.of[c] = [op |-> "getLance", pc |-> "connecting",
                         awaits |-> "null", own |-> ToString(calls.stores + 1),
                         seq |-> calls.started + 1]]
  /\ UNCHANGED <<pipelineVars, toolVars, srch, proj>>

\* await lance.connect(...) settles: this._lance = lance; return lance
ConnectSettles(c) ==
  /\ calls.of[c].pc = "connecting"
  /\ \E ok \in BOOLEAN :
       IF ok
         THEN /\ proj' = [proj EXCEPT !._lance = calls.of[c].own]
              /\ calls' = [calls EXCEPT
                    !.of[c].pc = "resolved",
                    !.connected = @ + 1,
                    !.lanceReturned = @ \cup {calls.of[c].own}]
       ELSE /\ calls' = [calls EXCEPT !.of[c].pc = "rejected"]
            /\ UNCHANGED proj
  /\ UNCHANGED <<pipelineVars, toolVars, srch>>

\* The end of close(): if (this._lance) await this._lance.close() comes
\* next, else the guarded sqlite.close() and the return.
AfterDispose(c, cs, lanceField) ==
  IF lanceField # "null"
  THEN [cs EXCEPT !.of[c].pc = "closingLance"]
  ELSE [cs EXCEPT !.of[c].pc = "resolved", !.sqliteClosed = TRUE]

\* close() up to its first await
CloseCall(c) ==
  /\ CanStart(c)
  /\ LET begun == [calls EXCEPT
            !.started = @ + 1,
            !.of[c] = [op |-> "close", pc |-> "closing", awaits |-> "null",
                       own |-> proj._embeddings, seq |-> calls.started + 1]]
     IN IF proj._closed
          THEN /\ calls' = [begun EXCEPT !.of[c].pc = "resolved",
                                         !.of[c].own = "noop"]
               /\ UNCHANGED proj
        ELSE /\ proj' = [proj EXCEPT !._closed = TRUE]
             /\ calls' = IF proj._embeddings # "null"
                         THEN [begun EXCEPT !.of[c].pc = "disposing"]
                         ELSE AfterDispose(c, begun, proj._lance)
  /\ UNCHANGED <<pipelineVars, toolVars, srch>>

\* await this._embeddings.dispose() settles.  The dispose of the default
\* provider catches its errors; a supplied provider's dispose may reject.
DisposeSettles(c) ==
  /\ calls.of[c].pc = "disposing"
  /\ \E ok \in (IF calls.of[c].own = "custom" THEN BOOLEAN ELSE {TRUE}) :
       IF ok
         THEN /\ proj' = [proj EXCEPT !._embeddings = "null"]
              /\ calls' = AfterDispose(c, calls, proj._lance)
       ELSE /\ calls' = [calls EXCEPT !.of[c].pc = "rejected"]
            /\ UNCHANGED proj
  /\ UNCHANGED <<pipelineVars, toolVars, srch>>

\* await this._lance.close() settles (it only drops its handles), then the
\* guarded sqlite.close().
LanceCloseSettles(c) ==
  /\ calls.of[c].pc = "closingLance"
  /\ proj' = [proj EXCEPT !._lance = "null"]
  /\ calls' = [calls EXCEPT !.of[c].pc = "resolved", !.sqliteClosed = TRUE]
  /\ UNCHANGED <<pipelineVars, toolVars, srch>>

InitProject ==
  /\ tree = [p \in Paths |-> NoFile]
  /\ db = EmptyDb
  /\ lance = EmptyLance
  /\ pc = "idle"
  /\ run = NoRun
  /\ runs = 0
  /\ result = Outcome("none", NoRun, <<0, 0, 0, 0>>)
  /\ srch = NoSearch
  /\ proj = NewProject
  /\ calls = NoCalls
  /\ chunker = NoChunking
  /\ trav = NoTraversal

NextProject ==
  \/ \E c \in Callers : InitEmbeddingsCall(c)
  \/ ImportSettles
  \/ InitializeSettles
  \/ \E c \in Callers : InitEmbeddingsResume(c)
  \/ \E c \in Callers : GetLanceCall(c)
  \/ \E c \in Callers : ConnectSettles(c)
  \/ \E c \in Callers : CloseCall(c)
  \/ \E c \in Callers : DisposeSettles(c)
  \/ \E c \in Callers : LanceCloseSettles(c)

SpecProject == InitProject /\ [][NextProject]_vars

\* The initializations in flight: started and not yet settled.
PendingInits ==
  {i \in 1..Len(calls.promises) : calls.promises[i].state \in {"importing", "initializing"}}

FulfilledInits ==
  {i \in 1..Len(calls.promises) : calls.promises[i].state = "fulfilled"}

\* Caller c's initEmbeddings call settles in this step.
InitEmbeddingsSettles(c) ==
  /\ calls'.of[c].op = "initEmbeddings"
  /\ calls'.of[c].pc \in {"resolved", "rejected"}
  /\ \/ calls.of[c].pc = "awaiting"
     \/ calls.of[c].seq # calls'.of[c].seq

\* No initEmbeddings call settles while an initialization is in flight.
SettlesAfterInitialization ==
  \A c \in Callers : InitEmbeddingsSettles(c) => \A i \in PendingInits' : FALSE

\* An initEmbeddings call settles only when the initialization it waited on
\* has settled; a call that waited on none settles when none is in flight.
SettlesAfterOwnInitialization ==
  \A c \in Callers :
    InitEmbeddingsSettles(c) =>
      IF calls'.of[c].awaits = "null" THEN \A i \in PendingInits' : FALSE
      ELSE \E i \in 1..Len(calls'.promises) :
             /\ ToString(i) = calls'.of[c].awaits
             /\ calls'.promises[i].state \in {"fulfilled", "rejected"}

\* C17 as stated: whatever the interleaving of the initEmbeddings calls on an
\* open Project, initialize() is invoked at most once, and a call settles
\* only when no initialization is in flight.
C17_SingleInitialization ==
  /\ [](~proj._closed => calls.initCount <= 1)
  /\ [][SettlesAfterInitialization]_vars

\* C17 amended: at most one initialization is in flight at a time, at most
\* one succeeds while the Project is open, initialize() is invoked again only
\* after an initialization that failed, and a call settles only when the
\* initialization it waited on has settled.
C17_OneInitializationInFlight ==
  /\ [](/\ Cardinality(PendingInits) <= 1
        /\ ~proj._closed =>
             /\ Cardinality(FulfilledInits) <= 1
             /\ calls.initCount <= 1 + calls.initFailed)
  /\ [][SettlesAfterOwnInitialization]_vars

\* Two concurrent callers waited on one initialization, the only one made,
\* and both have resolved.
C17_Witness ==
  /\ ~proj._closed
  /\ calls.initCount = 1
  /\ \E c, d \in Callers :
       /\ c # d
       /\ calls.of[c].op = "initEmbeddings" /\ calls.of[d].op = "initEmbeddings"
       /\ calls.of[c].pc = "resolved" /\ calls.of[d].pc = "resolved"
       /\ calls.of[c].awaits # "null"
       /\ calls.of[c].awaits = calls.of[d].awaits

\* C18: on an open Project, whatever the interleaving of the getLance calls,
\* at most one connection to the vector store is established and every
\* caller receives the same LanceStore instance.
C18_SingleConnection ==
  ~proj._closed =>
    /\ calls.connected <= 1
    /\ Cardinality(calls.lanceReturned) <= 1

\* The close() call that found the Project open.
ClosingCall(c) == calls.of[c].op = "close" /\ calls.of[c].own # "noop"

\* C19: the close() call that shuts the Project down never rejects, and when
\* it has settled the provider is disposed, the vector store is closed and
\* the metadata store is closed.
C19_CloseSuppressesErrors ==
  \A c \in Callers :
    (ClosingCall(c) /\ calls.of[c].pc \in {"resolved", "rejected"}) =>
      /\ calls.of[c].pc = "resolved"
      /\ calls.sqliteClosed

\* C20: in every mode hybridSearch resolves when the query of a source
\* fails: a call in which the vector query, the keyword query or the symbol
\* query failed is never rejected.
C20_RetrievalNeverRejects ==
  srch.failed \in {"vectorSearch", "keywordSearch", "symbolSearch"}
    => srch.pc # "rejected"

\* The files of the last run that were to be processed and whose content
\* the parser fails on.
ParseFailed(r) ==
  {p \in r.added \cup r.modified : parse(r.tree[p]) \in {"null", "throws"}}

\* C21: a completed run that had to process a file the parser fails on (no
\* grammar, or the parser raises) leaves the file's record with the hash of
\* its content and its chunks, searchable in the full-text index, with no
\* symbol; and every other file to process of that run is persisted too.
C21_ParseFailureDegrades ==
  Completed =>
    /\ \A p \in ParseFailed(result) :
         /\ \E f \in db.files :
              f.path = p /\ f.content_hash = hashContent(result.tree[p])
         /\ ChunksOfPath(p) # {}
         /\ {c.id : c \in ChunksOfPath(p)} \subseteq db.chunks_fts
         /\ SymbolsOfPath(p) = {}
    /\ ParseFailed(result) # {} =>
         \A p \in (result.added \cup result.modified) \ ParseFailed(result) :
           \E f \in db.files :
             f.path = p /\ f.content_hash = hashContent(result.tree[p])

\* The source text a file row was persisted from (its content hash).
SourceOfFile(fileId) == {f.content_hash[2] : f \in {g \in db.files : g.id = fileId}}

\* The parent names the extractor gave for a symbol row.
ExtractedParentNames(s) ==
  UNION {{x.parentName : x \in {y \in Range(SourceTable[src].symbols) :
                                  /\ y.name = s.name
                                  /\ y.startLine = s.start_line
                                  /\ y.endLine = s.end_line}}
         : src \in SourceOfFile(s.file_id)}

\* C22: in every state, a symbol row with a parent points to a symbol row of
\* the same file that has no parent itself and whose name is the parent name
\* extracted for the child.
C22_ParentIsTopLevel ==
  \A s \in db.symbols :
    s.parent_symbol_id # 0 =>
      \E par \in db.symbols :
        /\ par.id = s.parent_symbol_id
        /\ par.file_id = s.file_id
        /\ par.parent_symbol_id = 0
        /\ ExtractedParentNames(s) = {par.name}

\* The class Bar holds a method Bar and a method run; both point to the class.
C22_Witness ==
  /\ Completed
  /\ result.tree["b.ts"] = "BP"
  /\ \E par \in db.symbols :
       /\ par.name = "Bar" /\ par.parent_symbol_id = 0
       /\ Cardinality({s \in db.symbols : s.parent_symbol_id = par.id}) = 2

(***************************************************************************)
(* chunkFile computed on the text (indexer/chunker.ts).  A source is its   *)
(* sequence of lines (source.split("\n")); a symbol carries its kind.      *)
(***************************************************************************)
MaxLines == 3

LongLine == "export function longer(a, b) { return a; }"

\* An empty line, an indentation-only line, a short and a long code line.
LineTexts == {"", "  ", "ab();", LongLine}

\* lines.join("\n")
RECURSIVE JoinWith(_, _)
JoinWith(parts, sep) ==
  IF Len(parts) = 0 THEN ""
  ELSE IF Len(parts) = 1 THEN parts[1]
  ELSE parts[1] \o sep \o JoinWith(Tail(parts), sep)

\* text.trim().length > 0 for the text of some lines
HasCode(ls) == \E i \in 1..Len(ls) : ls[i] \notin {"", "  "}

ChunkSymbol(name, parentName, kind, s, e) ==
  [name |-> name, parentName |-> parentName, kind |-> kind,
   startLine |-> s, endLine |-> e]

\* topLevelSymbols.sort((a, b) => a.startLine - b.startLine): stable
RECURSIVE SortByStartLine(_)
SortByStartLine(syms) ==
  IF Len(syms) = 0 THEN <<>>
  ELSE LET first == CHOOSE i \in 1..Len(syms) :
                      \A j \in 1..Len(syms) :
                        \/ syms[i].startLine < syms[j].startLine
                        \/ syms[i].startLine = syms[j].startLine /\ i <= j
           rest == [j \in 1..(Len(syms) - 1) |-> IF j < first THEN syms[j] ELSE syms[j + 1]]
       IN <<syms[first]>> \o SortByStartLine(rest)

SelectSeqBy(seq, Keep(_)) ==
  LET RECURSIVE From(_)
      From(i) == IF i > Len(seq) THEN <<>>
                 ELSE (IF Keep(seq[i]) THEN <<seq[i]>> ELSE <<>>) \o From(i + 1)
  IN From(1)

NamesOf(syms) == [i \in 1..Len(syms) |-> syms[i].name]

buildChunkContent(filePath, code, startLine, endLine, symbolNames) ==
  LET header == "// File: " \o filePath \o " | Lines: " \o ToString(startLine)
                  \o "-" \o ToString(endLine)
      withSymbols == IF Len(symbolNames) > 0
                     THEN header \o " | Symbols: " \o JoinWith(symbolNames, ", ")
                     ELSE header
  IN withSymbols \o "\n" \o code

CodeChunk(index, content, startLine, endLine, names) ==
  [chunkIndex |-> index, content |-> content, startLine |-> startLine,
   endLine |-> endLine, containedSymbolNames |-> names,
   tokenCount |-> estimateTokens(content)]

\* The inner while loop of splitRegion and chunkByLines: from lineStart
\* (0-based) take lines while the text stays within maxTokens, one at least.
RECURSIVE Accumulate(_, _, _, _, _)
Accumulate(regionLines, lineStart, lineEnd, currentText, maxTokens) ==
  IF lineEnd >= Len(regionLines) THEN [lineEnd |-> lineEnd, text |-> currentText]
  ELSE LET nextText == currentText \o (IF currentText # "" THEN "\n" ELSE "")
                         \o regionLines[lineEnd + 1]
       IN IF estimateTokens(nextText) > maxTokens /\ lineEnd > lineStart
          THEN [lineEnd |-> lineEnd, text |-> currentText]
          ELSE Accumulate(regionLines, lineStart, lineEnd + 1, nextText, maxTokens)

RECURSIVE SplitFrom(_, _, _, _, _, _, _)
SplitFrom(regionLines, firstLine, names, filePath, maxTokens, chunkIndex, lineStart) ==
  IF lineStart >= Len(regionLines) THEN <<>>
  ELSE LET acc == Accumulate(regionLines, lineStart, lineStart, "", maxTokens)
           absStartLine == firstLine + lineStart
           absEndLine == firstLine + acc.lineEnd - 1
       IN <<CodeChunk(chunkIndex,
                      buildChunkContent(filePath, acc.text, absStartLine, absEndLine, names),
                      absStartLine, absEndLine, names)>>
          \o SplitFrom(regionLines, firstLine, names, filePath, maxTokens,
                       chunkIndex + 1, acc.lineEnd)

\* Variant: only the first piece of a split region is kept.
splitRegion_firstPiece(region, filePath, maxTokens, startIndex) ==
  SubSeq(SplitFrom(region.lines, region.startLine, region.symbolNames, filePath,
                   maxTokens, startIndex, 0), 1, 1)

splitRegion(region, filePath, maxTokens, startIndex) ==
  SplitFrom(region.lines, region.startLine, region.symbolNames, filePath,
            maxTokens, startIndex, 0)

chunkByLines(lines, filePath, maxTokens) ==
  SplitFrom(lines, 1, <<>>, filePath, maxTokens, 0, 0)

ChunkRegion(lines, s, e, names, isSymbol) ==
  [startLine |-> s, endLine |-> e, lines |-> SubSeq(lines, s, e),
   symbolNames |-> names, isSymbol |-> isSymbol]

\* The loop over the sorted top-level symbols: gaps and symbol bodies.
RECURSIVE BuildRegions(_, _, _, _, _, _)
BuildRegions(lines, symbols, topLevelSymbols, i, currentLine, regions) ==
  IF i > Len(topLevelSymbols)
  THEN IF currentLine <= Len(lines) /\ HasCode(SubSeq(lines, currentLine, Len(lines)))
       THEN Append(regions, ChunkRegion(lines, currentLine, Len(lines), <<>>, FALSE))
       ELSE regions
  ELSE LET sym == topLevelSymbols[i]
           IsChild(x) == x.parentName = sym.name
           gap == IF sym.startLine > currentLine
                     /\ HasCode(SubSeq(lines, currentLine, sym.startLine - 1))
                  THEN <<ChunkRegion(lines, currentLine, sym.startLine - 1, <<>>, FALSE)>>
                  ELSE <<>>
           body == ChunkRegion(lines, sym.startLine, sym.endLine,
                               <<sym.name>> \o NamesOf(SelectSeqBy(symbols, IsChild)), TRUE)
       IN IF sym.startLine < currentLine
          THEN BuildRegions(lines, symbols, topLevelSymbols, i + 1, currentLine, regions)
          ELSE BuildRegions(lines, symbols, topLevelSymbols, i + 1, sym.endLine + 1,
                            regions \o gap \o <<body>>)

\* Regions to chunks, splitting the large ones.
RECURSIVE RegionChunks(_, _, _, _, _)
RegionChunks(regions, i, filePath, maxTokens, chunks) ==
  IF i > Len(regions) THEN chunks
  ELSE LET region == regions[i]
           text == JoinWith(region.lines, "\n")
       IN IF estimateTokens(text) <= maxTokens - 20
          THEN RegionChunks(regions, i + 1, filePath, maxTokens,
                 Append(chunks,
                   CodeChunk(Len(chunks),
                     buildChunkContent(filePath, text, region.startLine,
                                       region.endLine, region.symbolNames),
                     region.startLine, region.endLine, region.symbolNames)))
          ELSE RegionChunks(regions, i + 1, filePath, maxTokens,
                 chunks \o splitRegion(region, filePath, maxTokens, Len(chunks)))

\* chunkFile(source, filePath, symbols, maxTokens) on the lines of source
ChunkSource(lines, filePath, symbols, maxTokens) ==
  LET source == JoinWith(lines, "\n")
      IsTopLevel(x) == x.parentName = "" \/ x.kind = "class"
      topLevelSymbols == SortByStartLine(SelectSeqBy(symbols, IsTopLevel))
      regions == BuildRegions(lines, symbols, topLevelSymbols, 1, 1, <<>>)
  IN IF estimateTokens(source) <= maxTokens
     THEN <<CodeChunk(0, buildChunkContent(filePath, source, 1, Len(lines), NamesOf(symbols)),
                      1, Len(lines), NamesOf(symbols))>>
     ELSE IF Len(regions) = 0 THEN chunkByLines(lines, filePath, maxTokens)
     ELSE RegionChunks(regions, 1, filePath, maxTokens, <<>>)

\* The symbols the extractor can give for a file of n lines: the first is
\* top-level, a later one is top-level, a class nested in the first, or a
\* method of the first; any line range inside the file.
SymbolsAt(slot, n) ==
  LET variants == IF slot = 1 THEN {<<"", "function">>, <<"", "class">>}
                  ELSE {<<"", "function">>, <<"f", "class">>, <<"f", "method">>}
  IN {ChunkSymbol(IF slot = 1 THEN "f" ELSE "g", v[1], v[2], r[1], r[2]) :
        v \in variants, r \in {q \in (1..n) \X (1..n) : q[1] <= q[2]}}

InitChunk ==
  /\ tree = [p \in Paths |-> NoFile]
  /\ db = EmptyDb
  /\ lance = EmptyLance
  /\ pc = "idle"
  /\ run = NoRun
  /\ runs = 0
  /\ result = Outcome("none", NoRun, <<0, 0, 0, 0>>)
  /\ srch = NoSearch
  /\ proj = NewProject
  /\ calls = NoCalls
  /\ trav = NoTraversal
  /\ \E n \in 1..MaxLines : \E lines \in [1..n -> LineTexts] :
       \E symbols \in {<<>>} \cup {<<x>> : x \in SymbolsAt(1, n)}
                      \cup {<<x, y>> : x \in SymbolsAt(1, n), y \in SymbolsAt(2, n)}
                      \cup {<<y, x>> : x \in SymbolsAt(1, n), y \in SymbolsAt(2, n)} :
         \E maxTokens \in {2, 24} :
           chunker = [pc |-> "called", lines |-> lines, symbols |-> symbols,
                      maxTokens |-> maxTokens, chunks |-> <<>>]

Chunk ==
  /\ chunker.pc = "called"
  /\ chunker' = [chunker EXCEPT
                   !.pc = "returned",
                   !.chunks = ChunkSource(chunker.lines, "a.ts", chunker.symbols,
                                          chunker.maxTokens)]
  /\ UNCHANGED <<pipelineVars, retrievalVars, trav>>

NextChunk == Chunk

SpecChunk == InitChunk /\ [][NextChunk]_vars

Returned == chunker.pc = "returned"

CoveredLines(chunks) ==
  {i \in 1..MaxLines : \E c \in 1..Len(chunks) :
     chunks[c].startLine <= i /\ i <= chunks[c].endLine}

\* The header of a chunk names the lines a to b.
HeaderSays(content, a, b) ==
  LET header == "// File: a.ts | Lines: " \o ToString(a) \o "-" \o ToString(b)
  IN /\ Len(content) > Len(header)
     /\ SubSeq(content, 1, Len(header)) = header
     /\ SubSeq(content, Len(header) + 1, Len(header) + 1) \in {"\n", " "}

IndexedAndLabelled(chunks) ==
  \A c \in 1..Len(chunks) :
    /\ chunks[c].chunkIndex = c - 1
    /\ HeaderSays(chunks[c].content, chunks[c].startLine, chunks[c].endLine)

SymbolOverlapsChunk(sym, chunk) ==
  sym.startLine <= chunk.endLine /\ sym.endLine >= chunk.startLine

\* C24: in every returned chunk whose contained-symbol list is not empty,
\* every symbol of the file whose line range overlaps the chunk's line range
\* is in that list, a symbol that starts on a line already consumed by a
\* previous symbol included.
C24_SymbolContainment ==
  Returned =>
    \A c \in 1..Len(chunker.chunks) :
      chunker.chunks[c].containedSymbolNames # <<>> =>
        \A i \in 1..Len(chunker.symbols) :
          SymbolOverlapsChunk(chunker.symbols[i], chunker.chunks[c]) =>
            InSeq(chunker.symbols[i].name, chunker.chunks[c].containedSymbolNames)

(***************************************************************************)
(* Graph traversal (search/graph-search.ts) over a database of five        *)
(* symbols in three files and any subset of the edges below, inserted in   *)
(* this order.                                                             *)
(***************************************************************************)
MaxDepth == 3

GraphFiles == <<"a.ts", "b.ts", "c.ts">>

\* name, file: root (1) and c (4) in a.ts, a (2) and d (5) in b.ts, x (3) in c.ts
GraphSymbols == <<<<"root", 1>>, <<"a", 2>>, <<"x", 3>>, <<"c", 1>>, <<"d", 2>>>>

\* source symbol, target symbol, edge type
GraphEdges ==
  <<<<1, 2, "calls">>, <<1, 2, "imports">>, <<2, 3, "calls">>, <<1, 3, "calls">>,
    <<3, 4, "calls">>, <<4, 5, "calls">>, <<3, 1, "calls">>, <<4, 1, "imports">>>>

RECURSIVE GraphDbFiles(_, _)
GraphDbFiles(d, i) ==
  IF i > Len(GraphFiles) THEN d
  ELSE GraphDbFiles(upsertFile(d, GraphFiles[i], i, 1), i + 1)

RECURSIVE GraphDbSymbols(_, _)
GraphDbSymbols(d, i) ==
  IF i > Len(GraphSymbols) THEN d
  ELSE GraphDbSymbols(insertSymbol(d, GraphSymbols[i][2],
                                   Sym(GraphSymbols[i][1], "", i, i)), i + 1)

RECURSIVE GraphDbEdges(_, _, _)
GraphDbEdges(d, chosen, i) ==
  IF i > Len(GraphEdges) THEN d
  ELSE IF i \notin chosen THEN GraphDbEdges(d, chosen, i + 1)
  ELSE LET e == GraphEdges[i]
       IN GraphDbEdges(
            insertEdge(d, [source_symbol_id |-> e[1], target_symbol_id |-> e[2],
                           edge_type |-> e[3],
                           source_file_id |-> GraphSymbols[e[1]][2],
                           target_file_id |-> GraphSymbols[e[2]][2]]),
            chosen, i + 1)

GraphDb(chosen) == GraphDbEdges(GraphDbSymbols(GraphDbFiles(EmptyDb, 1), 1), chosen, 1)

\* SELECT * FROM symbols WHERE name = ? ORDER BY exported DESC,
\* importance_score DESC LIMIT 1 (all rows here have one importance)
getSymbolByName(d, name) ==
  LET rows == {s \in d.symbols : s.name = name}
  IN IF rows = {} THEN {} ELSE {CHOOSE s \in rows : \A q \in rows : s.id <= q.id}

getFileById(d, id) == {f \in d.files : f.id = id}

getSymbolsByFile(d, fileId) == {s \in d.symbols : s.file_id = fileId}

getEdgesFrom(d, symbolId) == RowOrder({e \in d.graph_edges : e.source_symbol_id = symbolId})

getEdgesTo(d, symbolId) == RowOrder({e \in d.graph_edges : e.target_symbol_id = symbolId})

GraphNode(d, sym, depth) ==
  [symbolId |-> sym.id, name |-> sym.name,
   filePath |-> IF getFileById(d, sym.file_id) = {} THEN "unknown"
                ELSE (CHOOSE f \in getFileById(d, sym.file_id) : TRUE).path,
   depth |-> depth]

\* collectEdges: acc holds the results list and the visited set, both
\* shared by the whole traversal.
RECURSIVE collectEdges(_, _, _, _, _, _)
RECURSIVE CollectLoop(_, _, _, _, _, _, _)
CollectLoop(d, edges, i, direction, maxDepth, acc, currentDepth) ==
  IF i > Len(edges) THEN acc
  ELSE LET edge == edges[i]
           targetId == IF direction = "outgoing" THEN edge.target_symbol_id
                       ELSE edge.source_symbol_id
           found == {s \in getSymbolsByFile(d, edge.target_file_id) : s.id = targetId}
           pushed == [acc EXCEPT !.results =
                        Append(@, GraphNode(d, CHOOSE s \in found : TRUE, currentDepth))]
       IN IF targetId \in acc.visited \/ found = {}
          THEN CollectLoop(d, edges, i + 1, direction, maxDepth, acc, currentDepth)
          ELSE CollectLoop(d, edges, i + 1, direction, maxDepth,
                 collectEdges(d, targetId, direction, maxDepth, pushed, currentDepth + 1),
                 currentDepth)

collectEdges(d, symbolId, direction, maxDepth, acc, currentDepth) ==
  IF currentDepth > maxDepth THEN acc
  ELSE IF symbolId \in acc.visited THEN acc
  ELSE CollectLoop(d,
         IF direction = "outgoing" THEN getEdgesFrom(d, symbolId) ELSE getEdgesTo(d, symbolId),
         1, direction, maxDepth,
         [acc EXCEPT !.visited = @ \cup {symbolId}], currentDepth)

NoNodes == [results |-> <<>>, visited |-> {}]

getRelatedSymbols(d, symbolName, depth, direction) ==
  IF getSymbolByName(d, symbolName) = {} THEN [found |-> FALSE]
  ELSE LET symbol == CHOOSE s \in getSymbolByName(d, symbolName) : TRUE
       IN [found |-> TRUE,
           root |-> GraphNode(d, symbol, 0),
           callees |-> IF direction \in {"dependencies", "both"}
                       THEN collectEdges(d, symbol.id, "outgoing", depth, NoNodes, 1).results
                       ELSE <<>>,
           callers |-> IF direction \in {"dependents", "both"}
                       THEN collectEdges(d, symbol.id, "incoming", depth, NoNodes, 1).results
                       ELSE <<>>]

InitGraph ==
  /\ tree = [p \in Paths |-> NoFile]
  /\ db = EmptyDb
  /\ lance = EmptyLance
  /\ pc = "idle"
  /\ run = NoRun
  /\ runs = 0
  /\ result = Outcome("none", NoRun, <<0, 0, 0, 0>>)
  /\ srch = NoSearch
  /\ proj = NewProject
  /\ calls = NoCalls
  /\ chunker = NoChunking
  /\ \E chosen \in SUBSET (1..Len(GraphEdges)) :
       \E i \in 1..Len(GraphSymbols) :
         \E depth \in 1..MaxDepth :
           \E direction \in {"dependencies", "dependents", "both"} :
             trav = [pc |-> "called", d |-> GraphDb(chosen),
                     symbolName |-> GraphSymbols[i][1], depth |-> depth,
                     direction |-> direction, result |-> [found |-> FALSE]]

GetRelatedSymbols ==
  /\ trav.pc = "called"
  /\ trav' = [trav EXCEPT
                !.pc = "returned",
                !.result = getRelatedSymbols(trav.d, trav.symbolName, trav.depth,
                                             trav.direction)]
  /\ UNCHANGED <<pipelineVars, retrievalVars, chunker>>

NextGraph == GetRelatedSymbols

SpecGraph == InitGraph /\ [][NextGraph]_vars

TraversalReturned == trav.pc = "returned" /\ trav.result.found

NodeIds(nodes) == {nodes[i].symbolId : i \in 1..Len(nodes)}

\* The symbols within n outgoing edges of the symbols of from.
RECURSIVE ReachableWithin(_, _, _)
ReachableWithin(d, from, n) ==
  IF n = 0 THEN from
  ELSE ReachableWithin(d,
         from \cup {e.target_symbol_id : e \in {x \in d.graph_edges : x.source_symbol_id \in from}},
         n - 1)

\* C25: with direction "dependencies" and depth d >= 1, on any edge graph,
\* the call returns and callees holds every symbol other than the root that
\* a path of at most d outgoing edges reaches from the root.
C25_CalleesComplete ==
  (TraversalReturned /\ trav.direction = "dependencies") =>
    ReachableWithin(trav.d, {trav.result.root.symbolId}, trav.depth)
        \ {trav.result.root.symbolId}
      \subseteq NodeIds(trav.result.callees)

\* C26: with direction "dependents" and depth 1, callers holds every symbol
\* that is the source of an edge whose target is the root, sources in another
\* file included.
C26_CallersComplete ==
  (TraversalReturned /\ trav.direction = "dependents" /\ trav.depth = 1) =>
    {e.source_symbol_id : e \in {x \in trav.d.graph_edges :
        x.target_symbol_id = trav.result.root.symbolId}}
        \ {trav.result.root.symbolId}
      \subseteq NodeIds(trav.result.callers)

DuplicateFree(nodes) ==
  \A i, j \in 1..Len(nodes) : nodes[i].symbolId = nodes[j].symbolId => i = j

\* C30: each symbol is at most once in callees and at most once in callers,
\* and the root is in neither list.
C30_NoDuplicates ==
  TraversalReturned =>
    /\ DuplicateFree(trav.result.callees)
    /\ DuplicateFree(trav.result.callers)
    /\ trav.result.root.symbolId \notin NodeIds(trav.result.callees)
    /\ trav.result.root.symbolId \notin NodeIds(trav.result.callers)

\* Both full-text indexes hold exactly the rows of their tables.
FtsCurrent(d) ==
  /\ d.symbols_fts = {x.id : x \in d.symbols}
  /\ d.chunks_fts = {x.id : x \in d.chunks}

\* C27: within one non-full run, the metadata rows of a modified file are
\* deleted before that file's vector rows, no full-text index is rebuilt
\* between the per-file deletes, and both are rebuilt after the last per-file
\* delete and before any new symbol or chunk is inserted.
C27_CleanupOrder ==
  [][~run.full =>
       /\ \A p \in PathsOf(run.modifiedFiles) :
            (pc = "cleanup" /\ VectorsOfPath(lance'.rows, p) # VectorsOfPath(lance.rows, p))
              => SymbolsOfPath(p) = {} /\ ChunksOfPath(p) = {}
       /\ (pc = "cleanup" /\ pc' = "cleanup") =>
            db'.symbols_fts = db.symbols_fts /\ db'.chunks_fts = db.chunks_fts
       /\ (pc = "cleanup" /\ pc' # "cleanup" /\ Len(run.modifiedFiles) > 0) => FtsCurrent(db')
       /\ (db'.seqSymbols # db.seqSymbols \/ db'.seqChunks # db.seqChunks) => FtsCurrent(db)
    ]_vars

\* Two modified files, between the two deletes of the first: its rows are
\* gone, its vectors and the full-text rows of its symbols are still there,
\* and the rows of the second are still to be deleted.
C27_Witness ==
  /\ pc = "cleanup"
  /\ ~run.full
  /\ \E p, q \in PathsOf(run.modifiedFiles) :
       /\ SymbolsOfPath(p) = {}
       /\ VectorsOfPath(lance.rows, p) # {}
       /\ SymbolsOfPath(q) # {}
  /\ ~FtsCurrent(db)

\* The database a full run over the tree t writes: every discovered file
\* parsed and persisted into the cleared tables, then the graph.
FullRunDb(t) ==
  LET discovered == discoverFiles(t)
      parsedFiles == ParseFiles(discovered, 1, {}, t)
      acc == PersistFiles([db |-> clearAllData(EmptyDb), all |-> <<>>], parsedFiles, 1)
  IN buildGraph(acc.db, parsedFiles)

PathOfFileId(d, id) == {f.path : f \in {g \in d.files : g.id = id}}

NameOfSymbolId(d, id) == {x.name : x \in {y \in d.symbols : y.id = id}}

\* The graph edges by what they join: paths and names instead of row ids.
NamedEdges(d) ==
  {[source |-> <<PathOfFileId(d, e.source_file_id), NameOfSymbolId(d, e.source_symbol_id)>>,
    target |-> <<PathOfFileId(d, e.target_file_id), NameOfSymbolId(d, e.target_symbol_id)>>,
    type |-> e.edge_type] : e \in d.graph_edges}

NamedFileDependencies(d) ==
  {<<PathOfFileId(d, x.source_file_id), PathOfFileId(d, x.target_file_id)>> :
     x \in d.file_dependencies}

\* C28: a completed non-full run leaves the graph edges and the file
\* dependencies that a full run over the same tree leaves; so the edges and
\* the dependency from an unchanged file into a modified one are there.
C28_GraphAsFullRun ==
  (Completed /\ ~result.full) =>
    /\ NamedEdges(db) = NamedEdges(FullRunDb(result.tree))
    /\ NamedFileDependencies(db) = NamedFileDependencies(FullRunDb(result.tree))

\* get hasEmbeddings(): this._embeddings !== null
hasEmbeddings(p) == p._embeddings # "null"

\* initialize() of the provider now held by the Project has resolved.
ProviderInitialized ==
  \E i \in 1..Len(calls.promises) :
    /\ calls.promises[i].state = "fulfilled"
    /\ calls.promises[i].provider = (IF proj._embeddings = "custom" THEN "custom" ELSE "none")

\* C29: hasEmbeddings is true only when initialize() has completed
\* successfully: while an initialization is in progress and after it failed
\* hasEmbeddings is false, so that a concurrent hybridSearch does not call
\* embedQuery on a provider that is not initialized.
C29_HasEmbeddingsMeansInitialized ==
  hasEmbeddings(proj) => ProviderInitialized

====
